---------------------------- MODULE Spec2Model ----------------------------
(***************************************************************************)
(* Model of reter_linhas_com_info_das_chaves: the reference loaders        *)
(* (ler_todas_as_nfes_deste_cte, ler_chave_complementar_deste_cte), the    *)
(* reference-graph expansion (expand_cte_complementar, expand_cte_nfes,    *)
(* get_nfe_ctes), the ledger key extraction (get_efd_info), the parallel   *)
(* document matcher (read_csv_files / process_single_csv), the merge       *)
(* (merge_files), the gap reporter (imprimir_chaves_nao_encontradas,       *)
(* exportar_chaves_faltantes) and run(), which calls them in turn.         *)
(*                                                                         *)
(* A KeyMap (HashMap<String, HashSet<String>>) is a function whose DOMAIN  *)
(* is the set of keys that have an entry.  A text (String) is a sequence   *)
(* of one-character strings.                                               *)
(***************************************************************************)
EXTENDS Integers, Sequences, FiniteSets, TLC

VARIABLES
    \* ---- graph expander (sped_efd.rs 191-333, main.rs 30-49) ----
    cte_complementar,   \* KeyMap: CTe -> complementary CTes
    cte_nfes,           \* KeyMap: CTe -> cargo notes (NFes)
    nfe_ctes,           \* KeyMap: NFe -> CTes carrying it
    input_map,          \* the complementary map as it was before any expansion
    input_nfes,         \* the cargo-note map as it was before propagation
    expansions,         \* how many times expand_cte_complementar has run
    gpc,                \* position in the graph stage
    \* ---- ledger key extractor (sped_efd.rs 335-418) ----
    config,             \* Config: efd_path, colunas_efd, the three reference maps
    ledger,             \* the ledger file: exists, header, rows (records as the csv reader yields them)
    efd_result,         \* what get_efd_info returned, or NotCalled
    \* ---- document matcher (sped_efd.rs 484-618) ----
    doc_files,          \* the fiscal-document files, by path (read only)
    keys_efd,           \* the Ledger Key Set handed to the matcher (read only)
    staging,            \* the staging outputs that exist, by temporary path: their lines
    csv_result,         \* what one call of process_single_csv returned, or NotCalled
    \* ---- read_csv_files (sped_efd.rs 484-515) ----
    queue,              \* the paths of config.arquivos_csv no worker has taken yet
    wk,                 \* per worker thread: its position in the closure and its locals
    contrib,            \* per processed path: the (set, count) its closure call produced
    total_itens,        \* the AtomicUsize counter
    keys_encontradas,   \* the set being collected
    read_result,        \* what read_csv_files returned, or NotCalled
    \* ---- merge_files (sped_efd.rs 620-682) ----
    staging0,           \* the staging outputs as they were when merge_files was called
    final_output,       \* the lines of the file config.target, or NotCalled before its creation
    merge_result,       \* what merge_files returned, or NotCalled
    \* ---- reference loaders (sped_efd.rs 70-189) ----
    ref_file,           \* the reference text a loader reads: its lines, as read
    loaded_nfes,        \* what ler_todas_as_nfes_deste_cte returned, or NotCalled
    loaded_compl,       \* what ler_chave_complementar_deste_cte returned, or NotCalled
    \* ---- gap reporter (sped_efd.rs 779-929, main.rs 71-75) ----
    keys_doc,           \* the matched-key set handed to the reporter (read only)
    chaves_faltantes,   \* what imprimir_chaves_nao_encontradas returned, or NotCalled
    export_result,      \* what exportar_chaves_faltantes returned and the files it left, or NotCalled
    \* ---- run (main.rs 19-81) ----
    comp_file,          \* the text of the complementary CT-es, as read
    rpc,                \* the line of run() that is next, "returned", "aborted" or "idle"
    run_result          \* what run() returned, or NotCalled

graphVars == <<cte_complementar, cte_nfes, nfe_ctes, input_map, input_nfes,
               expansions, gpc>>

efdVars == <<ledger, efd_result>>

docVars == <<doc_files, keys_efd, staging, csv_result>>

matchVars == <<queue, wk, contrib, total_itens, keys_encontradas, read_result>>

mergeVars == <<staging0, final_output, merge_result>>

loadVars == <<ref_file, loaded_nfes, loaded_compl>>

gapVars == <<keys_doc, chaves_faltantes, export_result>>

runVars == <<comp_file, rpc, run_result>>

vars == <<config, graphVars, efdVars, docVars, matchVars, mergeVars, loadVars, gapVars, runVars>>

\* what the actions of one stage leave alone
GraphOthers == <<config, efdVars, docVars, matchVars, mergeVars, loadVars, gapVars, runVars>>
EfdOthers == <<graphVars, docVars, matchVars, mergeVars, loadVars, gapVars, runVars>>
CsvOthers == <<graphVars, efdVars, matchVars, mergeVars, loadVars, gapVars, runVars>>
MatchOthers == <<graphVars, efdVars, csv_result, mergeVars, loadVars, gapVars, runVars>>
MergeOthers == <<graphVars, efdVars, matchVars, doc_files, keys_efd, csv_result, loadVars, gapVars, runVars>>
LoadOthers == <<config, graphVars, efdVars, docVars, matchVars, mergeVars, gapVars, runVars>>
GapOthers == <<graphVars, efdVars, doc_files, staging, csv_result, matchVars, mergeVars, loadVars, runVars>>

-----------------------------------------------------------------------------
(* Bounds of the model *)

\* declared (directed) edges in a complementary input map
MaxEdges == 3
\* (CTe, note) references in a cargo-note input map
MaxNoteRefs == 2
\* data rows of a ledger file
MaxRows == 2
\* data rows of a fiscal-document file
MaxDocRows == 2
\* fiscal-document files of one run of read_csv_files
NumFiles == 3
\* lines of one staging output
MaxStaged == 2
\* lines of a reference text
MaxLines == 2

\* the length of a document key (regex.rs 30, sped_efd.rs 67, 592)
KeyLen == 44

-----------------------------------------------------------------------------
(* KeyMap helpers *)

\* map.get(k) read as a set: the entry, or nothing
Get(map, k) == IF k \in DOMAIN map THEN map[k] ELSE {}

EmptyMap == [k \in {} |-> {}]

\* The permutations of a finite set, as sequences: the possible iteration
\* orders of a HashMap's keys or of a HashSet.
RECURSIVE Perms(_)
Perms(S) ==
    IF S = {} THEN {<<>>}
    ELSE UNION {{<<x>> \o p : p \in Perms(S \ {x})} : x \in S}

SeqToSet(s) == {s[i] : i \in 1..Len(s)}

-----------------------------------------------------------------------------
(* expand_cte_complementar, sped_efd.rs 242-283 *)

\* A mutant: the reverse edge (line 248) is not inserted.
Symmetrize_OneWay(map) ==
    LET nodes == {u \in DOMAIN map : map[u] # {}} \cup UNION {map[u] : u \in DOMAIN map}
    IN  [n \in nodes |-> Get(map, n)]

\* step 1 (244-250): the symmetric adjacency built while draining the map.
\* A key whose neighbour set is empty inserts nothing.
Symmetrize(map) ==
    LET nodes == {u \in DOMAIN map : map[u] # {}} \cup UNION {map[u] : u \in DOMAIN map}
    IN  [n \in nodes |-> Get(map, n) \cup {u \in DOMAIN map : n \in map[u]}]

\* A mutant: the traversal stops after one hop: the neighbours of the root
\* join the group, their own neighbours are never pushed.
DfsLoop_Shallow(adj, stack, visited, group) ==
    IF stack = <<>> THEN {[visited |-> visited, group |-> group]}
    ELSE LET current == stack[Len(stack)]
             fresh   == (Get(adj, current) \ visited) \ {current}
         IN  IF current \in visited
             THEN {[visited |-> visited, group |-> group]}
             ELSE {[visited |-> visited \cup {current} \cup fresh,
                    group |-> Append(group, current) \o pushed] :
                      pushed \in Perms(fresh)}

\* step 2 (264-271): the stack loop of one traversal, as the set of its
\* possible outcomes.  `stack` is popped from its end; the neighbours of a
\* newly visited node are pushed in the order the HashSet iterates them, which
\* is any order.
RECURSIVE DfsLoop(_, _, _, _)
DfsLoop(adj, stack, visited, group) ==
    IF stack = <<>> THEN {[visited |-> visited, group |-> group]}
    ELSE LET current == stack[Len(stack)]
             rest    == SubSeq(stack, 1, Len(stack) - 1)
         IN  IF current \in visited
             THEN DfsLoop(adj, rest, visited, group)
             ELSE UNION {DfsLoop(adj, rest \o pushed, visited \cup {current},
                                 Append(group, current)) :
                            pushed \in Perms(Get(adj, current))}

\* A mutant: only the root of the traversal receives the other members.
InsertClique_RootOnly(map, group) ==
    LET g == SeqToSet(group)
        ins == {m \in g : m = group[1] /\ g \ {m} # {}}
    IN  [k \in DOMAIN map \cup ins |-> IF k \in ins THEN g \ {k} ELSE map[k]]

\* A mutant: a member receives only the members found before it.
InsertClique_Prefix(map, group) ==
    LET ins == {group[i] : i \in 2..Len(group)}
    IN  [k \in DOMAIN map \cup ins |->
            IF k \in ins
            THEN {group[j] : j \in {j \in 1..Len(group) : \E i \in 1..Len(group) : group[i] = k /\ j < i}}
            ELSE map[k]]

\* A mutant: every member gets the whole group, itself included.
InsertClique_WithSelf(map, group) ==
    LET g == SeqToSet(group)
    IN  [k \in DOMAIN map \cup g |-> IF k \in g THEN g ELSE map[k]]

\* step 3 (274-281): every member of the group gets all the others; a member
\* with no others is not inserted.
InsertClique(map, group) ==
    LET g == SeqToSet(group)
        ins == {m \in g : g \ {m} # {}}
    IN  [k \in DOMAIN map \cup ins |-> IF k \in ins THEN g \ {k} ELSE map[k]]

\* the loop over the adjacency's keys (255-282): `keys` are the keys not yet
\* iterated, and the HashMap yields them in any order.  The set of the maps
\* the loop can end with.
RECURSIVE ComponentsLoop(_, _, _, _)
ComponentsLoop(adj, keys, visited, map) ==
    IF keys = {} THEN {map}
    ELSE UNION {
            IF node \in visited
            THEN ComponentsLoop(adj, keys \ {node}, visited, map)
            ELSE UNION {ComponentsLoop(adj, keys \ {node}, r.visited,
                                       InsertClique(map, r.group)) :
                           r \in DfsLoop(adj, <<node>>, visited, <<>>)}
            : node \in keys}

\* The whole function: the map is drained (so it restarts empty) and refilled.
\* Its value is the set of the maps that the call can leave, one for every
\* iteration order of the hash containers.
expand_cte_complementar(map) ==
    LET adj == Symmetrize(map)
    IN  ComponentsLoop(adj, DOMAIN adj, {}, EmptyMap)

-----------------------------------------------------------------------------
(* expand_cte_nfes, sped_efd.rs 309-333 *)

\* A mutant: only CTes that already own notes receive the propagated ones.
expand_cte_nfes_OnlyOwners(nfes, compl) ==
    [t \in DOMAIN nfes |->
        nfes[t] \cup UNION {nfes[c] : c \in {c \in DOMAIN nfes \cap DOMAIN compl : t \in compl[c]}}]

\* updates (312-326): every complement of a note-owning CTe receives its notes;
\* merge (330-332): the updates are unioned into the map, creating entries.
expand_cte_nfes(nfes, compl) ==
    LET owners  == DOMAIN nfes \cap DOMAIN compl
        targets == UNION {compl[c] : c \in owners}
        updates == [t \in targets |-> UNION {nfes[c] : c \in {c \in owners : t \in compl[c]}}]
    IN  [t \in DOMAIN nfes \cup targets |-> Get(nfes, t) \cup Get(updates, t)]

(* get_nfe_ctes, sped_efd.rs 191-199: the inverted index *)
get_nfe_ctes(nfes) ==
    LET notes == UNION {nfes[c] : c \in DOMAIN nfes}
    IN  [n \in notes |-> {c \in DOMAIN nfes : n \in nfes[c]}]

-----------------------------------------------------------------------------
(* Texts.  A character is a one-character string; a character outside      *)
(* ASCII is written by its code point ("U+0663" is ARABIC-INDIC DIGIT       *)
(* THREE, a decimal digit of two UTF-8 bytes).                              *)

AsciiDigits == {"0", "1", "2", "3", "4", "5", "6", "7", "8", "9"}

\* \d of the regex crate is Unicode-aware (\p{Nd}) unless (?-u) is given
UnicodeDigits == AsciiDigits \cup {"U+0663"}

\* \s of the regex crate, char::is_whitespace
WhiteSpace == {" ", "\t", "U+00A0"}

\* n times the character c
Rep(c, n) == [i \in 1..n |-> c]

\* str::trim (csv::Trim::All on a StringRecord, sped_efd.rs 350, 530)
RECURSIVE TrimStart(_)
TrimStart(t) == IF t # <<>> /\ Head(t) \in WhiteSpace THEN TrimStart(Tail(t)) ELSE t

RECURSIVE TrimEnd(_)
TrimEnd(t) ==
    IF t # <<>> /\ t[Len(t)] \in WhiteSpace THEN TrimEnd(SubSeq(t, 1, Len(t) - 1)) ELSE t

Trim(t) == TrimEnd(TrimStart(t))

TrimAll(record) == [i \in 1..Len(record) |-> Trim(record[i])]

\* RE_NON_DIGITS.replace_all(content, ""), regex.rs 29: \D removes every
\* character that is not a Unicode decimal digit
RE_NON_DIGITS_replace_all(t) == SelectSeq(t, LAMBDA c : c \in UnicodeDigits)

\* RE_CHAVE_44.is_match, regex.rs 30: ^(\d{44})$
RE_CHAVE_44_is_match(t) == Len(t) = KeyLen /\ \A i \in 1..Len(t) : t[i] \in UnicodeDigits

\* the UTF-8 encoding of the characters above U+007F that the texts hold:
\* the ARABIC-INDIC DIGIT THREE, the NO-BREAK SPACE and the Latin letters
\* of the names of metadata.rs
Utf8Of ==
    ("U+0663" :> <<"0xD9", "0xA3">>)
    @@ ("U+00A0" :> <<"0xC2", "0xA0">>)
    @@ ("U+00BA" :> <<"0xC2", "0xBA">>)
    @@ ("U+00C1" :> <<"0xC3", "0x81">>)
    @@ ("U+00E1" :> <<"0xC3", "0xA1">>)
    @@ ("U+00E3" :> <<"0xC3", "0xA3">>)
    @@ ("U+00E7" :> <<"0xC3", "0xA7">>)
    @@ ("U+00E9" :> <<"0xC3", "0xA9">>)
    @@ ("U+00EA" :> <<"0xC3", "0xAA">>)
    @@ ("U+00ED" :> <<"0xC3", "0xAD">>)
    @@ ("U+00F3" :> <<"0xC3", "0xB3">>)
    @@ ("U+00F4" :> <<"0xC3", "0xB4">>)
    @@ ("U+00F5" :> <<"0xC3", "0xB5">>)
    @@ ("U+00FA" :> <<"0xC3", "0xBA">>)

\* the bytes of a text (str::len, str::get and the index of a str count
\* bytes)
RECURSIVE Utf8Bytes(_)
Utf8Bytes(t) ==
    IF t = <<>> THEN <<>>
    ELSE (IF Head(t) \in DOMAIN Utf8Of THEN Utf8Of[Head(t)] ELSE <<Head(t)>>)
            \o Utf8Bytes(Tail(t))

Utf8(t) == IF \A i \in 1..Len(t) : t[i] \notin DOMAIN Utf8Of THEN t ELSE Utf8Bytes(t)

\* str::is_char_boundary: the start, the end, or a byte that is not a
\* continuation byte (the second byte of a character of two bytes)
is_char_boundary(t, n) ==
    \/ n = 0
    \/ n = Len(Utf8(t))
    \/ n < Len(Utf8(t)) /\ Utf8(t)[n + 1] \notin {Utf8Of[c][2] : c \in DOMAIN Utf8Of}

\* &c[20..22] panics unless both ends are character boundaries
SlicePanics(c) == ~is_char_boundary(c, 20) \/ ~is_char_boundary(c, 22)

\* &c[20..22], the model code of a key of 22 bytes or more
Codigo(c) == SubSeq(Utf8(c), 21, 22)

-----------------------------------------------------------------------------
(* Errors, error.rs 9-100 *)

NoError == [kind |-> "none"]

IoReader(arquivo) == [kind |-> "IoReader", arquivo |-> arquivo]
EmptyColumnName(arquivo) == [kind |-> "EmptyColumnName", arquivo |-> arquivo]
DuplicateColumnName(arquivo, coluna) ==
    [kind |-> "DuplicateColumnName", arquivo |-> arquivo, coluna |-> coluna]
MissingEssentialColumn(arquivo, coluna, tipo) ==
    [kind |-> "MissingEssentialColumn", arquivo |-> arquivo, coluna |-> coluna, tipo |-> tipo]
ConfigError(msg) == [kind |-> "Config", msg |-> msg]

\* SpedError::from_csv on csv::ErrorKind::UnequalLengths, error.rs 84-100
ColumnCount(arquivo, linha, esperado, encontrado) ==
    [kind |-> "ColumnCount", arquivo |-> arquivo, linha |-> linha,
     esperado |-> esperado, encontrado |-> encontrado]

\* the same csv error converted by `?` (From<csv::Error>, error.rs 28)
CsvError(linha, esperado, encontrado) ==
    [kind |-> "Csv", linha |-> linha, esperado |-> esperado, encontrado |-> encontrado]

\* std::io::Error converted by `?` (From<io::Error>, error.rs 54)
IoError == [kind |-> "Io"]

\* a panic: the process ends there
Panic == [kind |-> "panic"]

-----------------------------------------------------------------------------
(* The reference loaders, sped_efd.rs 66-189 *)

\* the characters that \w, hence \b, of the regex crate takes as word
\* characters: the decimal digits, the letters (those of ASCII and the Latin
\* letters above U+007F that the texts hold) and the underscore
WordChars ==
    UnicodeDigits
        \cup {"a", "b", "c", "d", "e", "f", "g", "h", "i", "j", "k", "l", "m", "n", "o", "p", "q", "r", "s", "t", "u", "v", "w", "x", "y", "z"}
        \cup {"A", "B", "C", "D", "E", "F", "G", "H", "I", "J", "K", "L", "M", "N", "O", "P", "Q", "R", "S", "T", "U", "V", "W", "X", "Y", "Z"}
        \cup {"U+00BA", "U+00C1", "U+00E1", "U+00E3", "U+00E7", "U+00E9", "U+00EA", "U+00ED", "U+00F3", "U+00F4", "U+00F5", "U+00FA"}
        \cup {"_"}

\* eh_modelo, 66-68: chave.len() == 44 && chave.get(20..22) == Some(modelo),
\* both counted in bytes
eh_modelo(chave, modelo) ==
    /\ Len(Utf8(chave)) = KeyLen
    /\ SubSeq(Utf8(chave), 21, 22) = modelo

\* Regex::new(r"\b\d{44}\b") (83, 143) and re.find_iter(&line): the matches
\* from left to right.  A match is a run of 44 decimal digits with a word
\* boundary on either side, that is with no word character next to it; two
\* matches cannot overlap.
find_iter(line) ==
    LET starts(i) == /\ i + KeyLen - 1 <= Len(line)
                     /\ (i = 1 \/ line[i - 1] \notin WordChars)
                     /\ (i + KeyLen - 1 = Len(line) \/ line[i + KeyLen] \notin WordChars)
                     /\ \A j \in i..(i + KeyLen - 1) : line[j] \in UnicodeDigits
        RECURSIVE From(_)
        From(i) == IF i > Len(line) THEN <<>>
                   ELSE IF starts(i)
                   THEN <<SubSeq(line, i, i + KeyLen - 1)>> \o From(i + KeyLen)
                   ELSE From(i + 1)
    IN  From(1)

\* what a loader returns: Ok(map) or Err(err)
Loaded(map) == [ok |-> TRUE, map |-> map, err |-> NoError]
LoadFailed(e) == [ok |-> FALSE, map |-> EmptyMap, err |-> e]

\* 88-111, the closure of .map: None, or the pair (cte, nfes) of the line
PairOfLine(line) ==
    LET chaves == find_iter(line.text)
    IN  IF chaves # <<>> /\ eh_modelo(Head(chaves), <<"5", "7">>)
        THEN LET nfes == {Tail(chaves)[i] : i \in
                            {i \in 1..(Len(chaves) - 1) :
                                eh_modelo(Tail(chaves)[i], <<"5", "5">>)}}
             IN  IF nfes = {} THEN <<>> ELSE <<[cte |-> Head(chaves), nfes |-> nfes]>>
        ELSE <<>>

\* 116: .collect::<SpedResult<KeyMap>>() extends a HashMap with the pairs,
\* HashMap::insert replacing the value of a key that the map already holds
RECURSIVE HashMapExtend(_, _)
HashMapExtend(map, pairs) ==
    IF pairs = <<>> THEN map
    ELSE HashMapExtend(
            [k \in DOMAIN map \cup {Head(pairs).cte} |->
                IF k = Head(pairs).cte THEN Head(pairs).nfes ELSE map[k]],
            Tail(pairs))

\* the pairs of the lines taken in the order `order`
RECURSIVE PairsInOrder(_, _)
PairsInOrder(pairs, order) ==
    IF order = <<>> THEN <<>>
    ELSE pairs[Head(order)] \o PairsInOrder(pairs, Tail(order))

\* ler_todas_as_nfes_deste_cte, 70-131, as the set of its possible outcomes:
\* par_bridge hands the lines to the workers in no fixed order, so the pairs
\* reach the map in any order; a line that cannot be read ends the function
\* with the Io error (91, 116)
ler_todas_as_nfes_deste_cte(file) ==
    IF ~file.exists THEN {LoadFailed(IoReader("cte_nfes.txt"))}
    ELSE IF \E i \in 1..Len(file.lines) : ~file.lines[i].ok THEN {LoadFailed(IoError)}
    ELSE LET pairs == [i \in 1..Len(file.lines) |-> PairOfLine(file.lines[i])]
         IN  {Loaded(HashMapExtend(EmptyMap, PairsInOrder(pairs, order))) :
                 order \in Perms(1..Len(file.lines))}

\* A mutant: the edge is recorded from the first key to the second only.
FoldLine_OneWay(acc, matches) ==
    IF Len(matches) >= 2
       /\ eh_modelo(matches[1], <<"5", "7">>) /\ eh_modelo(matches[2], <<"5", "7">>)
       /\ matches[1] # matches[2]
    THEN [k \in DOMAIN acc \cup {matches[1]} |->
             IF k = matches[1] THEN Get(acc, k) \cup {matches[2]} ELSE acc[k]]
    ELSE acc

\* 152-168, the closure of try_fold: the accumulator after a line whose
\* matches (re.find_iter(&line), 153) are `matches`
FoldLine(acc, matches) ==
    IF Len(matches) >= 2
       /\ eh_modelo(matches[1], <<"5", "7">>) /\ eh_modelo(matches[2], <<"5", "7">>)
       /\ matches[1] # matches[2]
    THEN [k \in DOMAIN acc \cup {matches[1], matches[2]} |->
             IF k = matches[1] THEN Get(acc, k) \cup {matches[2]}
             ELSE IF k = matches[2] THEN Get(acc, k) \cup {matches[1]}
             ELSE acc[k]]
    ELSE acc

\* the accumulator of a worker after the lines of `order`, `found` holding
\* the matches of every line
RECURSIVE FoldLines(_, _, _)
FoldLines(acc, found, order) ==
    IF order = <<>> THEN acc
    ELSE FoldLines(FoldLine(acc, found[Head(order)]), found, Tail(order))

\* 171-176, the closure of try_reduce: map_b's sets extend map_a's
ReduceMaps(map_a, map_b) ==
    [k \in DOMAIN map_a \cup DOMAIN map_b |-> Get(map_a, k) \cup Get(map_b, k)]

\* ler_chave_complementar_deste_cte, 133-189, as the set of its possible
\* outcomes: the lines reach the accumulators of the workers (here two) in
\* any order and split, and the accumulators are reduced to one map
ler_chave_complementar_deste_cte(file) ==
    IF ~file.exists
    THEN {LoadFailed(IoReader("transporte_subcontratado-chaves_complementares_dos_CTes.txt"))}
    ELSE IF \E i \in 1..Len(file.lines) : ~file.lines[i].ok THEN {LoadFailed(IoError)}
    ELSE LET found == [i \in 1..Len(file.lines) |-> find_iter(file.lines[i].text)]
         IN  {Loaded(ReduceMaps(
                        FoldLines(EmptyMap, found, SubSeq(order, 1, n)),
                        FoldLines(EmptyMap, found, SubSeq(order, n + 1, Len(order))))) :
                 order \in Perms(1..Len(file.lines)), n \in 0..Len(file.lines)}

-----------------------------------------------------------------------------
(* verificar_existencia_de_colunas_essenciais, sped_efd.rs 426-481 *)

\* the first repeated name of the header, in header order (440-449)
FirstDuplicate(names) ==
    LET dups == {i \in 1..Len(names) : \E j \in 1..(i - 1) : names[j] = names[i]}
    IN  names[CHOOSE i \in dups : \A k \in dups : i <= k]

\* A mutant: repeated names are not looked for.
verificar_existencia_de_colunas_essenciais_NoDuplicates(column_names, tipo, colunas, input_file) ==
    LET names   == {column_names[i] : i \in 1..Len(column_names)}
        missing == {colunas[k] : k \in DOMAIN colunas} \ names
    IN  IF \E i \in 1..Len(column_names) : Trim(column_names[i]) = <<>>
        THEN {EmptyColumnName(input_file)}
        ELSE IF missing # {}
        THEN {MissingEssentialColumn(input_file, c, tipo) : c \in missing}
        ELSE {NoError}

\* `colunas` is config.colunas_efd or config.colunas_doc, by `tipo`.  The set
\* of the possible outcomes: NoError, or an error; the missing column reported
\* is the first that the HashMap's values() yields, which is any of them.
verificar_existencia_de_colunas_essenciais(column_names, tipo, colunas, input_file) ==
    LET names   == {column_names[i] : i \in 1..Len(column_names)}
        missing == {colunas[k] : k \in DOMAIN colunas} \ names
    IN  IF \E i \in 1..Len(column_names) : Trim(column_names[i]) = <<>>
        THEN {EmptyColumnName(input_file)}
        ELSE IF Cardinality(names) < Len(column_names)
        THEN {DuplicateColumnName(input_file, FirstDuplicate(column_names))}
        ELSE IF missing # {}
        THEN {MissingEssentialColumn(input_file, c, tipo) : c \in missing}
        ELSE {NoError}

\* column_names.iter().position(|col| col == target), 372-374 and 551-553
Position(column_names, target) ==
    CHOOSE i \in 1..Len(column_names) :
        /\ column_names[i] = target
        /\ \A j \in 1..(i - 1) : column_names[j] # target

-----------------------------------------------------------------------------
(* get_efd_info, sped_efd.rs 335-408 *)

\* add_correlated_keys_to_info, 410-418: what the three maps list for `chave`
add_correlated_keys_to_info(cfg, chave) ==
    Get(cfg.nfe_ctes, chave) \cup Get(cfg.cte_nfes, chave)
        \cup Get(cfg.cte_complementar, chave)

\* 390-404: the keys one record adds to the set keys_efd
KeysOfRecord(cfg, record, idx_chave) ==
    LET clean_key == RE_NON_DIGITS_replace_all(record[idx_chave])
    IN  IF RE_CHAVE_44_is_match(clean_key)
        THEN add_correlated_keys_to_info(cfg, clean_key) \cup {clean_key}
        ELSE {}

\* A mutant: a record of another number of fields is passed over.
RECURSIVE EfdRecords_SkipBadRows(_, _, _, _, _, _)
EfdRecords_SkipBadRows(cfg, rows, idx, ncols, idx_chave, keys) ==
    IF idx >= Len(rows) THEN [ok |-> TRUE, keys |-> keys, err |-> NoError]
    ELSE LET record == TrimAll(rows[idx + 1])
         IN  EfdRecords_SkipBadRows(cfg, rows, idx + 1, ncols, idx_chave,
                 IF Len(record) # ncols THEN keys
                 ELSE keys \cup KeysOfRecord(cfg, record, idx_chave))

\* 385-405: the loop over the records; `idx` counts from 0.  A record whose
\* number of fields is not the header's ends the loop with ColumnCount.
RECURSIVE EfdRecords(_, _, _, _, _, _)
EfdRecords(cfg, rows, idx, ncols, idx_chave, keys) ==
    IF idx >= Len(rows) THEN [ok |-> TRUE, keys |-> keys, err |-> NoError]
    ELSE LET record == TrimAll(rows[idx + 1])
         IN  IF Len(record) # ncols
             THEN [ok |-> FALSE, keys |-> {},
                   err |-> ColumnCount(cfg.efd_path, idx + 2, ncols, Len(record))]
             ELSE EfdRecords(cfg, rows, idx + 1, ncols, idx_chave,
                             keys \cup KeysOfRecord(cfg, record, idx_chave))

Failed(e) == [ok |-> FALSE, keys |-> {}, err |-> e]

\* The whole function, as the set of its possible outcomes
\* [ok, keys, err]; `file` is the ledger at cfg.efd_path.
get_efd_info(cfg, file) ==
    IF ~file.exists THEN {Failed(IoReader(cfg.efd_path))}
    ELSE LET column_names == TrimAll(file.header)
         IN  UNION {
                IF v # NoError THEN {Failed(v)}
                ELSE IF "chave_documento" \notin DOMAIN cfg.colunas_efd
                THEN {Failed(ConfigError("chave_documento"))}
                ELSE {EfdRecords(cfg, file.rows, 0, Len(column_names),
                                 Position(column_names, cfg.colunas_efd["chave_documento"]),
                                 {})}
                : v \in verificar_existencia_de_colunas_essenciais(
                            column_names, "EFDContrib", cfg.colunas_efd, cfg.efd_path)}

-----------------------------------------------------------------------------
(* process_single_csv, sped_efd.rs 517-618 *)

\* RE_MULTISPACE.replace_all(t, " "), regex.rs 28: every maximal run of two
\* or more whitespace characters becomes one space
RE_MULTISPACE_replace_all(t) ==
    LET n             == Len(t)
        InMatch(i)    == /\ t[i] \in WhiteSpace
                         /\ \/ i > 1 /\ t[i - 1] \in WhiteSpace
                            \/ i < n /\ t[i + 1] \in WhiteSpace
        MatchStart(i) == InMatch(i) /\ (i = 1 \/ t[i - 1] \notin WhiteSpace)
        kept          == SelectSeq([i \in 1..n |-> i],
                                   LAMBDA i : ~InMatch(i) \/ MatchStart(i))
    IN  [k \in 1..Len(kept) |-> IF InMatch(kept[k]) THEN " " ELSE t[kept[k]]]

\* field.contains("  "), 601: two consecutive spaces
ContainsTwoSpaces(t) == \E i \in 1..(Len(t) - 1) : t[i] = " " /\ t[i + 1] = " "

\* 599-608: the field as pushed to the output record
OutField(field) ==
    IF ContainsTwoSpaces(field) THEN RE_MULTISPACE_replace_all(field) ELSE field

\* csv::Writer::write_record with delimiter ';' (566-568): the fields joined,
\* a field holding the delimiter, a quote or a line break quoted, its quotes
\* doubled; a record of one empty field is written as "".
RECURSIVE DoubleQuotes(_)
DoubleQuotes(t) ==
    IF t = <<>> THEN <<>>
    ELSE (IF Head(t) = "\"" THEN <<"\"", "\"">> ELSE <<Head(t)>>) \o DoubleQuotes(Tail(t))

CsvField(f, alone) ==
    IF (\E i \in 1..Len(f) : f[i] \in {";", "\"", "\n", "\r"}) \/ (alone /\ f = <<>>)
    THEN <<"\"">> \o DoubleQuotes(f) \o <<"\"">>
    ELSE f

\* the fields lo..hi of the record, a delimiter between two of them
RECURSIVE JoinFields(_, _, _, _)
JoinFields(fields, lo, hi, alone) ==
    IF lo > hi THEN <<>>
    ELSE IF lo = hi THEN CsvField(fields[lo], alone)
    ELSE LET mid == (lo + hi) \div 2
         IN  JoinFields(fields, lo, mid, alone) \o <<";">>
                 \o JoinFields(fields, mid + 1, hi, alone)

write_record(fields) == JoinFields(fields, 1, Len(fields), Len(fields) = 1)

\* Config::to_hash, args.rs 63-66: "{target}.tmp.{blake3(path)}"; the hash is
\* taken as free of collisions
blake3(x) == <<"blake3", x>>

to_hash(cfg, path) == <<cfg.target, ".tmp.", blake3(path)>>

\* A mutant: the key column is compared as it is, without stripping.
clean_key_of_Raw(content) == content

\* 588: content.chars().filter(|c| c.is_ascii_digit()).collect()
clean_key_of(content) == SelectSeq(content, LAMBDA c : c \in AsciiDigits)

\* 592: clean_key.len() == 44 && filter.contains(&clean_key); len() counts
\* bytes, and clean_key holds ASCII digits only
IsMatch(clean_key, filter) == Len(clean_key) = KeyLen /\ clean_key \in filter

\* 583-614: the loop over the records, `idx` counting from 0.  The value
\* holds the locals when the loop ends: on an error (a record whose number of
\* fields is not the header's) found and count are dropped by the caller,
\* and the lines written so far stay in the staging output.
RECURSIVE CsvRecords(_, _, _, _, _, _, _, _)
CsvRecords(rows, idx, ncols, target_col_idx, filter, found, count, lines) ==
    IF idx >= Len(rows)
    THEN [ok |-> TRUE, found |-> found, count |-> count, err |-> NoError, lines |-> lines]
    ELSE LET record    == TrimAll(rows[idx + 1])
             clean_key == clean_key_of(record[target_col_idx])
         IN  IF Len(record) # ncols
             THEN [ok |-> FALSE, found |-> found, count |-> count,
                   err |-> CsvError(idx + 2, ncols, Len(record)), lines |-> lines]
             ELSE IF IsMatch(clean_key, filter)
             THEN CsvRecords(rows, idx + 1, ncols, target_col_idx, filter,
                             found \cup {clean_key}, count + 1,
                             Append(lines, write_record(
                                 [i \in 1..Len(record) |-> OutField(record[i])])))
             ELSE CsvRecords(rows, idx + 1, ncols, target_col_idx, filter,
                             found, count + 1, lines)

\* A mutant: every file is taken for the first one.
IsFirstPath_Any(cfg, path) == TRUE

\* 571: config.arquivos_csv.first() == Some(&path)
IsFirstPath(cfg, path) == cfg.arquivos_csv # <<>> /\ Head(cfg.arquivos_csv) = path

\* an error before the staging output is created (525-558)
CsvFailedEarly(e) ==
    [ok |-> FALSE, found |-> {}, count |-> 0, err |-> e, created |-> FALSE, lines |-> <<>>]

\* The whole function, as the set of its possible outcomes
\* [ok, found, count, err, created, lines]: `created` tells whether the
\* staging output to_hash(path) was created, `lines` what it then holds.
process_single_csv(path, cfg, filter, files) ==
    IF path \notin DOMAIN files \/ ~files[path].exists THEN {CsvFailedEarly(IoError)}
    ELSE LET column_names == TrimAll(files[path].header)
         IN  UNION {
                IF v # NoError THEN {CsvFailedEarly(v)}
                ELSE IF "chave44_digitos" \notin DOMAIN cfg.colunas_doc
                THEN {CsvFailedEarly(ConfigError("chave44_digitos"))}
                ELSE LET r == CsvRecords(
                                files[path].rows, 0, Len(column_names),
                                Position(column_names, cfg.colunas_doc["chave44_digitos"]),
                                filter, {}, 0,
                                IF IsFirstPath(cfg, path)
                                THEN <<write_record(column_names)>> ELSE <<>>)
                     IN  {[ok |-> r.ok, found |-> r.found, count |-> r.count,
                           err |-> r.err, created |-> TRUE, lines |-> r.lines]}
                : v \in verificar_existencia_de_colunas_essenciais(
                            column_names, "DocFiscais", cfg.colunas_doc, path)}

\* File::create (561-564) and the writes: the file system after the call
StagingAfter(stg, cfg, path, r) ==
    IF r.created
    THEN [t \in DOMAIN stg \cup {to_hash(cfg, path)} |->
             IF t = to_hash(cfg, path) THEN r.lines ELSE stg[t]]
    ELSE stg

-----------------------------------------------------------------------------
(* read_csv_files, sped_efd.rs 484-515 *)

\* A mutant: a failed call keeps what it had found and counted.
unwrap_or_default_Partial(r) == [set |-> r.found, count |-> r.count]

\* 495-499: .map_err(log).unwrap_or_default(): the tuple of a successful
\* call, and (empty set, 0) for a failed one
unwrap_or_default(r) ==
    IF r.ok THEN [set |-> r.found, count |-> r.count] ELSE [set |-> {}, count |-> 0]

\* A mutant: the counter is overwritten instead of added to.
fetch_add_Store(total, count) == count

\* 502: total_itens.fetch_add(count, Ordering::Relaxed), one atomic
\* read-modify-write; the new value of the counter
fetch_add(total, count) == total + count

-----------------------------------------------------------------------------
(* merge_files, sped_efd.rs 620-682 *)

\* A mutant: the hash is taken of the line as read.
line_hash_Raw(line, normalized_line) == blake3(line)

\* 658: blake3::hash(normalized_line.as_bytes()).to_string()
line_hash(line, normalized_line) == blake3(normalized_line)

\* 647-664: the lines of one staging output, in order; a line whose hash
\* is new is written, normalized, to the final file
RECURSIVE MergeLines(_, _, _)
MergeLines(lines, seen_lines, final) ==
    IF lines = <<>> THEN [seen_lines |-> seen_lines, final |-> final]
    ELSE LET line            == Head(lines)
             normalized_line == RE_MULTISPACE_replace_all(line)
             h               == line_hash(line, normalized_line)
         IN  IF h \notin seen_lines
             THEN MergeLines(Tail(lines), seen_lines \cup {h},
                             Append(final, normalized_line))
             ELSE MergeLines(Tail(lines), seen_lines, final)

\* 635-676: the loop over config.arquivos_csv.  A staging output that
\* cannot be opened ends the function with IoReader, the final file keeping
\* what was written; a staging output read to its end is removed.
RECURSIVE MergeLoop(_, _, _, _, _)
MergeLoop(cfg, paths, stg, seen_lines, final) ==
    IF paths = <<>> THEN [ok |-> TRUE, err |-> NoError, final |-> final, staging |-> stg]
    ELSE LET temp_path == to_hash(cfg, Head(paths))
         IN  IF temp_path \notin DOMAIN stg
             THEN [ok |-> FALSE, err |-> IoReader(temp_path), final |-> final,
                   staging |-> stg]
             ELSE LET m == MergeLines(stg[temp_path], seen_lines, final)
                  IN  MergeLoop(cfg, Tail(paths),
                                [t \in DOMAIN stg \ {temp_path} |-> stg[t]],
                                m.seen_lines, m.final)

\* A mutant: the staging outputs are read from the last path to the first.
merge_files_LastFirst(cfg, stg) ==
    MergeLoop(cfg, [i \in 1..Len(cfg.arquivos_csv) |->
                       cfg.arquivos_csv[Len(cfg.arquivos_csv) + 1 - i]],
              stg, {}, <<>>)

\* The whole function: File::create(&config.target) (626), an empty set of
\* seen hashes (627), the loop, the flush (680)
merge_files(cfg, stg) == MergeLoop(cfg, cfg.arquivos_csv, stg, {}, <<>>)

-----------------------------------------------------------------------------
(* The gap reporter, sped_efd.rs 779-929, and metadata.rs 8-50 *)

\* get_modelo_documentos_fiscais, metadata.rs 8-50: the match over the codes
\* of the table 4.1.1, and the default
get_modelo_documentos_fiscais(codigo) ==
    CASE codigo = <<"0", "1">> ->
            <<"N", "o", "t", "a", " ", "F", "i", "s", "c", "a", "l">>
      [] codigo = <<"1", "B">> ->
            <<"N", "o", "t", "a", " ", "F", "i", "s", "c", "a", "l", " ", "A", "v", "u", "l", "s", "a">>
      [] codigo = <<"0", "2">> ->
            <<"N", "o", "t", "a", " ", "F", "i", "s", "c", "a", "l", " ", "d", "e", " ", "V", "e", "n", "d", "a", " ", "a", " ", "C", "o", "n", "s", "u", "m", "i", "d", "o", "r">>
      [] codigo = <<"2", "D">> ->
            <<"C", "u", "p", "o", "m", " ", "F", "i", "s", "c", "a", "l", " ", "e", "m", "i", "t", "i", "d", "o", " ", "p", "o", "r", " ", "E", "C", "F">>
      [] codigo = <<"2", "E">> ->
            <<"B", "i", "l", "h", "e", "t", "e", " ", "d", "e", " ", "P", "a", "s", "s", "a", "g", "e", "m", " ", "e", "m", "i", "t", "i", "d", "o", " ", "p", "o", "r", " ", "E", "C", "F">>
      [] codigo = <<"0", "4">> ->
            <<"N", "o", "t", "a", " ", "F", "i", "s", "c", "a", "l", " ", "d", "e", " ", "P", "r", "o", "d", "u", "t", "o", "r">>
      [] codigo = <<"0", "6">> ->
            <<"N", "o", "t", "a", " ", "F", "i", "s", "c", "a", "l", " ", "/", " ", "C", "o", "n", "t", "a", " ", "d", "e", " ", "E", "n", "e", "r", "g", "i", "a", " ", "E", "l", "U+00E9", "t", "r", "i", "c", "a">>
      [] codigo = <<"0", "7">> ->
            <<"N", "o", "t", "a", " ", "F", "i", "s", "c", "a", "l", " ", "d", "e", " ", "S", "e", "r", "v", "i", "U+00E7", "o", " ", "d", "e", " ", "T", "r", "a", "n", "s", "p", "o", "r", "t", "e">>
      [] codigo = <<"0", "8">> ->
            <<"C", "o", "n", "h", "e", "c", "i", "m", "e", "n", "t", "o", " ", "d", "e", " ", "T", "r", "a", "n", "s", "p", "o", "r", "t", "e", " ", "R", "o", "d", "o", "v", "i", "U+00E1", "r", "i", "o", " ", "d", "e", " ", "C", "a", "r", "g", "a", "s">>
      [] codigo = <<"8", "B">> ->
            <<"C", "o", "n", "h", "e", "c", "i", "m", "e", "n", "t", "o", " ", "d", "e", " ", "T", "r", "a", "n", "s", "p", "o", "r", "t", "e", " ", "d", "e", " ", "C", "a", "r", "g", "a", "s", " ", "A", "v", "u", "l", "s", "o">>
      [] codigo = <<"0", "9">> ->
            <<"C", "o", "n", "h", "e", "c", "i", "m", "e", "n", "t", "o", " ", "d", "e", " ", "T", "r", "a", "n", "s", "p", "o", "r", "t", "e", " ", "A", "q", "u", "a", "v", "i", "U+00E1", "r", "i", "o", " ", "d", "e", " ", "C", "a", "r", "g", "a", "s">>
      [] codigo = <<"1", "0">> ->
            <<"C", "o", "n", "h", "e", "c", "i", "m", "e", "n", "t", "o", " ", "A", "U+00E9", "r", "e", "o">>
      [] codigo = <<"1", "1">> ->
            <<"C", "o", "n", "h", "e", "c", "i", "m", "e", "n", "t", "o", " ", "d", "e", " ", "T", "r", "a", "n", "s", "p", "o", "r", "t", "e", " ", "F", "e", "r", "r", "o", "v", "i", "U+00E1", "r", "i", "o", " ", "d", "e", " ", "C", "a", "r", "g", "a", "s">>
      [] codigo = <<"1", "3">> ->
            <<"B", "i", "l", "h", "e", "t", "e", " ", "d", "e", " ", "P", "a", "s", "s", "a", "g", "e", "m", " ", "R", "o", "d", "o", "v", "i", "U+00E1", "r", "i", "o">>
      [] codigo = <<"1", "4">> ->
            <<"B", "i", "l", "h", "e", "t", "e", " ", "d", "e", " ", "P", "a", "s", "s", "a", "g", "e", "m", " ", "A", "q", "u", "a", "v", "i", "U+00E1", "r", "i", "o">>
      [] codigo = <<"1", "5">> ->
            <<"B", "i", "l", "h", "e", "t", "e", " ", "d", "e", " ", "P", "a", "s", "s", "a", "g", "e", "m", " ", "e", " ", "N", "o", "t", "a", " ", "d", "e", " ", "B", "a", "g", "a", "g", "e", "m">>
      [] codigo = <<"1", "6">> ->
            <<"B", "i", "l", "h", "e", "t", "e", " ", "d", "e", " ", "P", "a", "s", "s", "a", "g", "e", "m", " ", "F", "e", "r", "r", "o", "v", "i", "U+00E1", "r", "i", "o">>
      [] codigo = <<"1", "7">> ->
            <<"D", "e", "s", "p", "a", "c", "h", "o", " ", "d", "e", " ", "T", "r", "a", "n", "s", "p", "o", "r", "t", "e">>
      [] codigo = <<"1", "8">> ->
            <<"R", "e", "s", "u", "m", "o", " ", "d", "e", " ", "M", "o", "v", "i", "m", "e", "n", "t", "o", " ", "D", "i", "U+00E1", "r", "i", "o">>
      [] codigo = <<"2", "0">> ->
            <<"O", "r", "d", "e", "m", " ", "d", "e", " ", "C", "o", "l", "e", "t", "a", " ", "d", "e", " ", "C", "a", "r", "g", "a", "s">>
      [] codigo = <<"2", "1">> ->
            <<"N", "o", "t", "a", " ", "F", "i", "s", "c", "a", "l", " ", "d", "e", " ", "S", "e", "r", "v", "i", "U+00E7", "o", " ", "d", "e", " ", "C", "o", "m", "u", "n", "i", "c", "a", "U+00E7", "U+00E3", "o">>
      [] codigo = <<"2", "2">> ->
            <<"N", "o", "t", "a", " ", "F", "i", "s", "c", "a", "l", " ", "d", "e", " ", "S", "e", "r", "v", "i", "U+00E7", "o", " ", "d", "e", " ", "T", "e", "l", "e", "c", "o", "m", "u", "n", "i", "c", "a", "U+00E7", "U+00E3", "o">>
      [] codigo = <<"2", "3">> ->
            <<"G", "N", "R", "E">>
      [] codigo = <<"2", "4">> ->
            <<"A", "u", "t", "o", "r", "i", "z", "a", "U+00E7", "U+00E3", "o", " ", "d", "e", " ", "C", "a", "r", "r", "e", "g", "a", "m", "e", "n", "t", "o", " ", "e", " ", "T", "r", "a", "n", "s", "p", "o", "r", "t", "e">>
      [] codigo = <<"2", "5">> ->
            <<"M", "a", "n", "i", "f", "e", "s", "t", "o", " ", "d", "e", " ", "C", "a", "r", "g", "a">>
      [] codigo = <<"2", "6">> ->
            <<"C", "o", "n", "h", "e", "c", "i", "m", "e", "n", "t", "o", " ", "d", "e", " ", "T", "r", "a", "n", "s", "p", "o", "r", "t", "e", " ", "M", "u", "l", "t", "i", "m", "o", "d", "a", "l", " ", "d", "e", " ", "C", "a", "r", "g", "a", "s">>
      [] codigo = <<"2", "7">> ->
            <<"N", "o", "t", "a", " ", "F", "i", "s", "c", "a", "l", " ", "d", "e", " ", "T", "r", "a", "n", "s", "p", "o", "r", "t", "e", " ", "F", "e", "r", "r", "o", "v", "i", "U+00E1", "r", "i", "o", " ", "d", "e", " ", "C", "a", "r", "g", "a", "s">>
      [] codigo = <<"2", "8">> ->
            <<"N", "o", "t", "a", " ", "F", "i", "s", "c", "a", "l", " ", "/", " ", "C", "o", "n", "t", "a", " ", "d", "e", " ", "F", "o", "r", "n", "e", "c", "i", "m", "e", "n", "t", "o", " ", "d", "e", " ", "G", "U+00E1", "s", " ", "C", "a", "n", "a", "l", "i", "z", "a", "d", "o">>
      [] codigo = <<"2", "9">> ->
            <<"N", "o", "t", "a", " ", "F", "i", "s", "c", "a", "l", " ", "/", " ", "C", "o", "n", "t", "a", " ", "d", "e", " ", "F", "o", "r", "n", "e", "c", "i", "m", "e", "n", "t", "o", " ", "d", "e", " ", "U+00C1", "g", "u", "a", " ", "C", "a", "n", "a", "l", "i", "z", "a", "d", "a">>
      [] codigo = <<"3", "0">> ->
            <<"B", "i", "l", "h", "e", "t", "e", " ", "/", " ", "R", "e", "c", "i", "b", "o", " ", "d", "o", " ", "P", "a", "s", "s", "a", "g", "e", "i", "r", "o">>
      [] codigo = <<"5", "5">> ->
            <<"N", "o", "t", "a", " ", "F", "i", "s", "c", "a", "l", " ", "E", "l", "e", "t", "r", "U+00F4", "n", "i", "c", "a", ":", " ", "N", "F", "-", "e">>
      [] codigo = <<"5", "7">> ->
            <<"C", "o", "n", "h", "e", "c", "i", "m", "e", "n", "t", "o", " ", "d", "e", " ", "T", "r", "a", "n", "s", "p", "o", "r", "t", "e", " ", "E", "l", "e", "t", "r", "U+00F4", "n", "i", "c", "o", ":", " ", "C", "T", "-", "e">>
      [] codigo = <<"5", "9">> ->
            <<"C", "u", "p", "o", "m", " ", "F", "i", "s", "c", "a", "l", " ", "E", "l", "e", "t", "r", "U+00F4", "n", "i", "c", "o", ":", " ", "C", "F", "-", "e", " ", "(", "C", "F", "-", "e", "-", "S", "A", "T", ")">>
      [] codigo = <<"6", "0">> ->
            <<"C", "u", "p", "o", "m", " ", "F", "i", "s", "c", "a", "l", " ", "E", "l", "e", "t", "r", "U+00F4", "n", "i", "c", "o", ":", " ", "C", "F", "-", "e", "-", "E", "C", "F">>
      [] codigo = <<"6", "3">> ->
            <<"B", "i", "l", "h", "e", "t", "e", " ", "d", "e", " ", "P", "a", "s", "s", "a", "g", "e", "m", " ", "E", "l", "e", "t", "r", "U+00F4", "n", "i", "c", "o", ":", " ", "B", "P", "-", "e">>
      [] codigo = <<"6", "5">> ->
            <<"N", "o", "t", "a", " ", "F", "i", "s", "c", "a", "l", " ", "E", "l", "e", "t", "r", "U+00F4", "n", "i", "c", "a", " ", "a", "o", " ", "C", "o", "n", "s", "u", "m", "i", "d", "o", "r", " ", "F", "i", "n", "a", "l", ":", " ", "N", "F", "C", "-", "e">>
      [] codigo = <<"6", "6">> ->
            <<"N", "o", "t", "a", " ", "F", "i", "s", "c", "a", "l", " ", "d", "e", " ", "E", "n", "e", "r", "g", "i", "a", " ", "E", "l", "U+00E9", "t", "r", "i", "c", "a", " ", "E", "l", "e", "t", "r", "U+00F4", "n", "i", "c", "a", ":", " ", "N", "F", "3", "e">>
      [] codigo = <<"6", "7">> ->
            <<"C", "o", "n", "h", "e", "c", "i", "m", "e", "n", "t", "o", " ", "d", "e", " ", "T", "r", "a", "n", "s", "p", "o", "r", "t", "e", " ", "E", "l", "e", "t", "r", "U+00F4", "n", "i", "c", "o", " ", "p", "a", "r", "a", " ", "O", "u", "t", "r", "o", "s", " ", "S", "e", "r", "v", "i", "U+00E7", "o", "s", ":", " ", "C", "T", "-", "e", " ", "O", "S">>
      [] OTHER ->
            <<"M", "o", "d", "e", "l", "o", " ", "D", "e", "s", "c", "o", "n", "h", "e", "c", "i", "d", "o">>

\* the filter of 814 left out: every key of the model counts as missing
Faltantes_Unfiltered(chaves, doc) == chaves

\* 812-816: the keys of one model that keys_doc does not hold
Faltantes(chaves, doc) == {chave \in chaves : chave \notin doc}

\* imprimir_informacao_segregada, 715-758: the keys of 22 bytes or more are
\* counted by &key[20..22] (718-724), which panics on a key whose byte 20 or
\* 22 is inside a character; the counts are printed, nothing is returned
imprimir_informacao_segregada(keys) ==
    IF \E key \in {k \in keys : Len(Utf8(k)) >= 22} : SlicePanics(key)
    THEN [ok |-> FALSE, err |-> Panic]
    ELSE [ok |-> TRUE, err |-> NoError]

\* imprimir_chaves_nao_encontradas, 779-859: the keys of 22 bytes or more
\* are segregated by &chave[20..22] (786-795), which panics on a key whose
\* byte 20 or 22 is inside a character; the keys of each model that
\* keys_doc lacks are gathered (817)
imprimir_chaves_nao_encontradas(efd, doc) ==
    LET long     == {chave \in efd : Len(Utf8(chave)) >= 22}
        hash_seg == [codigo \in {Codigo(chave) : chave \in long} |->
                        {chave \in long : Codigo(chave) = codigo}]
    IN  IF \E chave \in long : SlicePanics(chave)
        THEN [ok |-> FALSE, keys |-> {}, err |-> Panic]
        ELSE [ok |-> TRUE, err |-> NoError,
              keys |-> UNION {Faltantes(hash_seg[codigo], doc) : codigo \in DOMAIN hash_seg}]

\* the bytes of the keys, in ascending order
ByteOrder == <<"0", "1", "2", "3", "4", "5", "6", "7", "8", "9", "0xA3", "0xD9">>

\* the texts of P, pairs of the bytes of a text and of the text, which agree
\* on their first i - 1 bytes, in ascending order of their bytes (the order
\* of str)
RECURSIVE SortFrom(_, _)
SortFrom(P, i) ==
    IF P = {} THEN <<>>
    ELSE IF Cardinality(P) = 1 THEN <<(CHOOSE p \in P : TRUE)[2]>>
    ELSE LET ended   == {p \in P : Len(p[1]) < i}
             present == {p[1][i] : p \in P \ ended}
             RECURSIVE ByBytes(_)
             ByBytes(n) ==
                 IF n > Len(ByteOrder) THEN <<>>
                 ELSE (IF ByteOrder[n] \in present
                       THEN SortFrom({p \in P \ ended : p[1][i] = ByteOrder[n]}, i + 1)
                       ELSE <<>>) \o ByBytes(n + 1)
         IN  IF ended = {} /\ Cardinality(present) = 1 THEN SortFrom(P, i + 1)
             ELSE SortFrom(ended, i) \o ByBytes(1)

\* a set of texts in the order of str
Sort(S) == SortFrom({<<Utf8(k), k>> : k \in S}, 1)

\* 887-892: sort_unstable_by_key on (&c[20..22], c); the keys are distinct,
\* so the order is the same for every order of the HashSet: the groups in
\* the order of their codes, every group in the order of its keys
sorted_chaves(chaves) ==
    LET codes == Sort({Codigo(c) : c \in chaves})
        RECURSIVE Groups(_)
        Groups(n) ==
            IF n > Len(codes) THEN <<>>
            ELSE <<Sort({c \in chaves : Codigo(c) = codes[n]})>> \o Groups(n + 1)
    IN  Groups(1)

\* the lines of a file of at most 900
MAX_LINHAS == 900

\* format!("{:06}", offset): the decimal digits, zeros to the left up to 6
RECURSIVE Decimal(_)
Decimal(n) ==
    IF n < 10 THEN <<ByteOrder[n + 1]>> ELSE Append(Decimal(n \div 10), ByteOrder[(n % 10) + 1])

fmt_06(n) == IF Len(Decimal(n)) >= 6 THEN Decimal(n) ELSE Rep("0", 6 - Len(Decimal(n))) \o Decimal(n)

\* 909: format!("{}-{}-{:06}.txt", target_base.display(), doc_nome, offset)
file_path(target_base, doc_nome, offset) ==
    <<target_base>> \o <<"-">> \o doc_nome \o <<"-">> \o fmt_06(offset)
        \o <<".", "t", "x", "t">>

\* File::create(&file_path), 914: the directories of the path must exist;
\* the base is a file name of the current directory (args.rs 92-96, 102),
\* so a name with a '/' leads into a directory that does not exist
CreateFails(doc_nome) == \E i \in 1..Len(doc_nome) : doc_nome[i] = "/"

\* 907: let offset = i * MAX_LINHAS
ChunkOffset(i) == i * MAX_LINHAS

\* 905-925: the files of one group, chunk after chunk; a file of the same
\* path is truncated
RECURSIVE WriteChunks(_, _, _, _, _)
WriteChunks(files, target_base, doc_nome, grupo, i) ==
    IF i * MAX_LINHAS >= Len(grupo) THEN files
    ELSE LET path  == file_path(target_base, doc_nome, ChunkOffset(i))
             chunk == SubSeq(grupo, i * MAX_LINHAS + 1,
                             IF (i + 1) * MAX_LINHAS < Len(grupo)
                             THEN (i + 1) * MAX_LINHAS ELSE Len(grupo))
         IN  WriteChunks([f \in DOMAIN files \cup {path} |->
                             IF f = path THEN chunk ELSE files[f]],
                         target_base, doc_nome, grupo, i + 1)

\* 896-926: the loop over the groups; the first file that cannot be created
\* ends the function with the Io error, the files written before staying
RECURSIVE ExportGroups(_, _, _, _)
ExportGroups(files, target_base, grupos, n) ==
    IF n > Len(grupos) THEN [ok |-> TRUE, err |-> NoError, files |-> files]
    ELSE LET doc_nome == get_modelo_documentos_fiscais(Codigo(grupos[n][1]))
         IN  IF CreateFails(doc_nome)
             THEN [ok |-> FALSE, err |-> IoError, files |-> files]
             ELSE ExportGroups(WriteChunks(files, target_base, doc_nome, grupos[n], 0),
                               target_base, grupos, n + 1)

\* exportar_chaves_faltantes, 874-929
exportar_chaves_faltantes(chaves, target_base) ==
    LET long == {c \in chaves : Len(Utf8(c)) >= 22}
    IN  IF chaves = {} THEN [ok |-> TRUE, err |-> NoError, files |-> <<>>]
        ELSE IF \E c \in long : SlicePanics(c)
        THEN [ok |-> FALSE, err |-> Panic, files |-> <<>>]
        ELSE ExportGroups(<<>>, target_base, sorted_chaves(long), 1)

-----------------------------------------------------------------------------
(* run, main.rs 19-81 *)

\* A mutant: an Err is not returned, the run goes on.
ReturnsErr_Never(r) == FALSE

\* the `?` of main.rs 33, 36, 57, 64, 67 and 74: an Err ends run() there
ReturnsErr(r) == ~r.ok

-----------------------------------------------------------------------------
(* The stages a specification does not exercise stay as they are here *)

NotCalled == [ok |-> FALSE, keys |-> {}, err |-> [kind |-> "not called"]]
NoFile == [exists |-> FALSE, header |-> <<>>, rows |-> <<>>]
NoText == [exists |-> FALSE, lines |-> <<>>]
NoConfig == [efd_path |-> "", arquivos_csv |-> <<>>, target |-> "",
             colunas_efd |-> <<>>, colunas_doc |-> <<>>,
             nfe_ctes |-> EmptyMap, cte_nfes |-> EmptyMap, cte_complementar |-> EmptyMap]

GraphIdle ==
    /\ cte_complementar = EmptyMap
    /\ cte_nfes = EmptyMap
    /\ nfe_ctes = EmptyMap
    /\ input_map = EmptyMap
    /\ input_nfes = EmptyMap
    /\ expansions = 0
    /\ gpc = "idle"

EfdIdle ==
    /\ ledger = NoFile
    /\ efd_result = NotCalled

DocIdle ==
    /\ doc_files = <<>>
    /\ keys_efd = {}
    /\ staging = <<>>
    /\ csv_result = NotCalled

MatchIdle ==
    /\ queue = {}
    /\ wk = <<>>
    /\ contrib = <<>>
    /\ total_itens = 0
    /\ keys_encontradas = {}
    /\ read_result = NotCalled

MergeIdle ==
    /\ staging0 = <<>>
    /\ final_output = NotCalled
    /\ merge_result = NotCalled

LoadIdle ==
    /\ ref_file = NoText
    /\ loaded_nfes = NotCalled
    /\ loaded_compl = NotCalled

GapIdle ==
    /\ keys_doc = {}
    /\ chaves_faltantes = NotCalled
    /\ export_result = NotCalled

RunIdle ==
    /\ comp_file = NoText
    /\ rpc = "idle"
    /\ run_result = NotCalled

-----------------------------------------------------------------------------
(* Inputs of the graph stage *)

\* CTe keys and cargo-note keys, named as in the doc-test of
\* expand_cte_complementar (sped_efd.rs 229-241)
Ctes == {"A", "B", "C", "D"}
Notes == {"N1", "N2"}

\* the map that the declarations `edges` (pairs <<u, v>>: u lists v) build,
\* plus an entry with no neighbour for every key of `lone`
MapOfEdges(edges, lone) ==
    [u \in {e[1] : e \in edges} \cup lone |-> {e[2] : e \in {d \in edges : d[1] = u}}]

SmallSubsets(S, n) == {T \in SUBSET S : Cardinality(T) <= n}

\* any complementary map of at most MaxEdges declared edges (one direction
\* only, both, self-references), with or without an entry for D that the
\* edges do not give it (an entry without neighbours when D declares none)
ClosureInputs ==
    {MapOfEdges(E, Z) : E \in SmallSubsets(Ctes \X Ctes, MaxEdges),
                        Z \in {{}, {"D"}}}

\* what ler_chave_complementar_deste_cte returns (155-165): every edge in both
\* directions, between two different keys
LoadedComplementar ==
    {MapOfEdges(E \cup {<<e[2], e[1]>> : e \in E}, {}) :
        E \in SmallSubsets({e \in Ctes \X Ctes : e[1] # e[2]}, MaxEdges)}

\* what ler_todas_as_nfes_deste_cte returns (96-107): no entry is empty
LoadedNfes ==
    {MapOfEdges(R, {}) : R \in SmallSubsets(Ctes \X Notes, MaxNoteRefs)}

-----------------------------------------------------------------------------
(* Specification of expand_cte_complementar as a function of any map *)

InitClosure ==
    /\ input_map \in ClosureInputs
    /\ cte_complementar = input_map
    /\ cte_nfes = EmptyMap
    /\ input_nfes = EmptyMap
    /\ nfe_ctes = EmptyMap
    /\ expansions = 0
    /\ gpc = "closure"
    /\ config = NoConfig
    /\ EfdIdle
    /\ DocIdle
    /\ MatchIdle
    /\ MergeIdle
    /\ LoadIdle
    /\ GapIdle
    /\ RunIdle

\* one call of expand_cte_complementar(&mut map); it may be called again
ExpandComplementar ==
    /\ gpc = "closure"
    /\ expansions < 2
    /\ cte_complementar' \in expand_cte_complementar(cte_complementar)
    /\ expansions' = expansions + 1
    /\ UNCHANGED <<cte_nfes, nfe_ctes, input_map, input_nfes, gpc>>
    /\ UNCHANGED GraphOthers

NextClosure == ExpandComplementar

SpecClosure == InitClosure /\ [][NextClosure]_vars

-----------------------------------------------------------------------------
(* Specification of steps 3-6 of run(), main.rs 30-45 *)

\* the state after the two loaders have returned (main.rs 33-36)
InitGraph ==
    /\ input_map \in LoadedComplementar
    /\ input_nfes \in LoadedNfes
    /\ cte_complementar = input_map
    /\ cte_nfes = input_nfes
    /\ nfe_ctes = EmptyMap
    /\ expansions = 0
    /\ gpc = "loaded"
    /\ config = NoConfig
    /\ EfdIdle
    /\ DocIdle
    /\ MatchIdle
    /\ MergeIdle
    /\ LoadIdle
    /\ GapIdle
    /\ RunIdle

\* main.rs 39
RunExpandComplementar ==
    /\ gpc = "loaded"
    /\ cte_complementar' \in expand_cte_complementar(cte_complementar)
    /\ expansions' = expansions + 1
    /\ gpc' = "closed"
    /\ UNCHANGED <<cte_nfes, nfe_ctes, input_map, input_nfes>>
    /\ UNCHANGED GraphOthers

\* main.rs 42
RunExpandNfes ==
    /\ gpc = "closed"
    /\ cte_nfes' = expand_cte_nfes(cte_nfes, cte_complementar)
    /\ gpc' = "propagated"
    /\ UNCHANGED <<cte_complementar, nfe_ctes, input_map, input_nfes, expansions>>
    /\ UNCHANGED GraphOthers

\* main.rs 45
RunGetNfeCtes ==
    /\ gpc = "propagated"
    /\ nfe_ctes' = get_nfe_ctes(cte_nfes)
    /\ gpc' = "indexed"
    /\ UNCHANGED <<cte_complementar, cte_nfes, input_map, input_nfes, expansions>>
    /\ UNCHANGED GraphOthers

NextGraph == RunExpandComplementar \/ RunExpandNfes \/ RunGetNfeCtes

SpecGraph == InitGraph /\ [][NextGraph]_vars

-----------------------------------------------------------------------------
(* Inputs of the ledger key extractor *)

\* a 44-digit key: 20 digits, the model code at positions 21-22, 22 digits
MkKey(d, modelo) == Rep(d, 20) \o modelo \o Rep(d, 22)

Nfe1 == MkKey("1", <<"5", "5">>)
Nfe2 == MkKey("2", <<"5", "5">>)
CteA == MkKey("3", <<"5", "7">>)
CteB == MkKey("4", <<"5", "7">>)

\* COLUNAS_EFD, metadata.rs 53-113: the names of the columns of the ledger
COLUNAS_EFD ==
    [num_linha |->
        <<"L", "i", "n", "h", "a", "s">>,
     efd_file |->
        <<"A", "r", "q", "u", "i", "v", "o", " ", "d", "a", " ", "E", "F", "D", " ", "C", "o", "n", "t", "r", "i", "b", "u", "i", "U+00E7", "U+00F5", "e", "s">>,
     efd_line |->
        <<"N", "U+00BA", " ", "d", "a", " ", "L", "i", "n", "h", "a", " ", "d", "a", " ", "E", "F", "D">>,
     cnpj_contribuinte |->
        <<"C", "N", "P", "J", " ", "d", "o", "s", " ", "E", "s", "t", "a", "b", "e", "l", "e", "c", "i", "m", "e", "n", "t", "o", "s", " ", "d", "o", " ", "C", "o", "n", "t", "r", "i", "b", "u", "i", "n", "t", "e">>,
     nome_contribuinte |->
        <<"N", "o", "m", "e", " ", "d", "o", " ", "C", "o", "n", "t", "r", "i", "b", "u", "i", "n", "t", "e">>,
     periodo_apuracao |->
        <<"P", "e", "r", "U+00ED", "o", "d", "o", " ", "d", "e", " ", "A", "p", "u", "r", "a", "U+00E7", "U+00E3", "o">>,
     periodo_apuracao_ano |->
        <<"A", "n", "o", " ", "d", "o", " ", "P", "e", "r", "U+00ED", "o", "d", "o", " ", "d", "e", " ", "A", "p", "u", "r", "a", "U+00E7", "U+00E3", "o">>,
     periodo_apuracao_tri |->
        <<"T", "r", "i", "m", "e", "s", "t", "r", "e", " ", "d", "o", " ", "P", "e", "r", "U+00ED", "o", "d", "o", " ", "d", "e", " ", "A", "p", "u", "r", "a", "U+00E7", "U+00E3", "o">>,
     periodo_apuracao_mes |->
        <<"M", "U+00EA", "s", " ", "d", "o", " ", "P", "e", "r", "U+00ED", "o", "d", "o", " ", "d", "e", " ", "A", "p", "u", "r", "a", "U+00E7", "U+00E3", "o">>,
     tipo_de_operacao |->
        <<"T", "i", "p", "o", " ", "d", "e", " ", "O", "p", "e", "r", "a", "U+00E7", "U+00E3", "o">>,
     tipo_de_credito |->
        <<"T", "i", "p", "o", " ", "d", "e", " ", "C", "r", "U+00E9", "d", "i", "t", "o">>,
     registro_bloco |->
        <<"R", "e", "g", "i", "s", "t", "r", "o">>,
     codigo_cst |->
        <<"C", "U+00F3", "d", "i", "g", "o", " ", "d", "e", " ", "S", "i", "t", "u", "a", "U+00E7", "U+00E3", "o", " ", "T", "r", "i", "b", "u", "t", "U+00E1", "r", "i", "a", " ", "(", "C", "S", "T", ")">>,
     codigo_cfop |->
        <<"C", "U+00F3", "d", "i", "g", "o", " ", "F", "i", "s", "c", "a", "l", " ", "d", "e", " ", "O", "p", "e", "r", "a", "U+00E7", "U+00F5", "e", "s", " ", "e", " ", "P", "r", "e", "s", "t", "a", "U+00E7", "U+00F5", "e", "s", " ", "(", "C", "F", "O", "P", ")">>,
     natureza_bc |->
        <<"N", "a", "t", "u", "r", "e", "z", "a", " ", "d", "a", " ", "B", "a", "s", "e", " ", "d", "e", " ", "C", "U+00E1", "l", "c", "u", "l", "o", " ", "d", "o", "s", " ", "C", "r", "U+00E9", "d", "i", "t", "o", "s">>,
     cnpj_participante |->
        <<"C", "N", "P", "J", " ", "d", "o", " ", "P", "a", "r", "t", "i", "c", "i", "p", "a", "n", "t", "e">>,
     cpf_participante |->
        <<"C", "P", "F", " ", "d", "o", " ", "P", "a", "r", "t", "i", "c", "i", "p", "a", "n", "t", "e">>,
     nome_participante |->
        <<"N", "o", "m", "e", " ", "d", "o", " ", "P", "a", "r", "t", "i", "c", "i", "p", "a", "n", "t", "e">>,
     num_doc_fiscal |->
        <<"N", "U+00BA", " ", "d", "o", " ", "D", "o", "c", "u", "m", "e", "n", "t", "o", " ", "F", "i", "s", "c", "a", "l">>,
     chave_documento |->
        <<"C", "h", "a", "v", "e", " ", "d", "o", " ", "D", "o", "c", "u", "m", "e", "n", "t", "o">>,
     modelo_doc_fiscal |->
        <<"M", "o", "d", "e", "l", "o", " ", "d", "o", " ", "D", "o", "c", "u", "m", "e", "n", "t", "o", " ", "F", "i", "s", "c", "a", "l">>,
     num_item |->
        <<"N", "U+00BA", " ", "d", "o", " ", "I", "t", "e", "m", " ", "d", "o", " ", "D", "o", "c", "u", "m", "e", "n", "t", "o", " ", "F", "i", "s", "c", "a", "l">>,
     data_emissao_nota |->
        <<"D", "a", "t", "a", " ", "d", "a", " ", "E", "m", "i", "s", "s", "U+00E3", "o", " ", "d", "o", " ", "D", "o", "c", "u", "m", "e", "n", "t", "o", " ", "F", "i", "s", "c", "a", "l">>,
     data_lancamento |->
        <<"D", "a", "t", "a", " ", "d", "a", " ", "E", "n", "t", "r", "a", "d", "a", " ", "/", " ", "A", "q", "u", "i", "s", "i", "U+00E7", "U+00E3", "o", " ", "/", " ", "E", "x", "e", "c", "u", "U+00E7", "U+00E3", "o", " ", "o", "u", " ", "d", "a", " ", "S", "a", "U+00ED", "d", "a", " ", "/", " ", "P", "r", "e", "s", "t", "a", "U+00E7", "U+00E3", "o", " ", "/", " ", "C", "o", "n", "c", "l", "u", "s", "U+00E3", "o">>,
     tipo_do_item |->
        <<"T", "i", "p", "o", " ", "d", "o", " ", "I", "t", "e", "m">>,
     descricao_do_item |->
        <<"D", "e", "s", "c", "r", "i", "U+00E7", "U+00E3", "o", " ", "d", "o", " ", "I", "t", "e", "m">>,
     codigo_ncm |->
        <<"C", "U+00F3", "d", "i", "g", "o", " ", "N", "C", "M">>,
     escrituracao_contabil |->
        <<"E", "s", "c", "r", "i", "t", "u", "r", "a", "U+00E7", "U+00E3", "o", " ", "C", "o", "n", "t", "U+00E1", "b", "i", "l", ":", " ", "N", "o", "m", "e", " ", "d", "a", " ", "C", "o", "n", "t", "a">>,
     info_complem_doc_fiscal |->
        <<"I", "n", "f", "o", "r", "m", "a", "U+00E7", "U+00E3", "o", " ", "C", "o", "m", "p", "l", "e", "m", "e", "n", "t", "a", "r", " ", "d", "o", " ", "D", "o", "c", "u", "m", "e", "n", "t", "o", " ", "F", "i", "s", "c", "a", "l">>,
     valor_do_item |->
        <<"V", "a", "l", "o", "r", " ", "T", "o", "t", "a", "l", " ", "d", "o", " ", "I", "t", "e", "m">>,
     valor_bc_contrib |->
        <<"V", "a", "l", "o", "r", " ", "d", "a", " ", "B", "a", "s", "e", " ", "d", "e", " ", "C", "U+00E1", "l", "c", "u", "l", "o", " ", "d", "a", "s", " ", "C", "o", "n", "t", "r", "i", "b", "u", "i", "U+00E7", "U+00F5", "e", "s">>,
     aliq_pis |->
        <<"A", "l", "U+00ED", "q", "u", "o", "t", "a", " ", "d", "e", " ", "P", "I", "S", "/", "P", "A", "S", "E", "P", " ", "(", "e", "m", " ", "p", "e", "r", "c", "e", "n", "t", "u", "a", "l", ")">>,
     aliq_cofins |->
        <<"A", "l", "U+00ED", "q", "u", "o", "t", "a", " ", "d", "e", " ", "C", "O", "F", "I", "N", "S", " ", "(", "e", "m", " ", "p", "e", "r", "c", "e", "n", "t", "u", "a", "l", ")">>,
     valor_de_pis |->
        <<"V", "a", "l", "o", "r", " ", "d", "e", " ", "P", "I", "S", "/", "P", "A", "S", "E", "P">>,
     valor_de_cofins |->
        <<"V", "a", "l", "o", "r", " ", "d", "e", " ", "C", "O", "F", "I", "N", "S">>,
     valor_de_iss |->
        <<"V", "a", "l", "o", "r", " ", "d", "e", " ", "I", "S", "S">>,
     valor_bc_icms |->
        <<"V", "a", "l", "o", "r", " ", "d", "a", " ", "B", "a", "s", "e", " ", "d", "e", " ", "C", "U+00E1", "l", "c", "u", "l", "o", " ", "d", "e", " ", "I", "C", "M", "S">>,
     aliq_icms |->
        <<"A", "l", "U+00ED", "q", "u", "o", "t", "a", " ", "d", "e", " ", "I", "C", "M", "S", " ", "(", "e", "m", " ", "p", "e", "r", "c", "e", "n", "t", "u", "a", "l", ")">>,
     valor_de_icms |->
        <<"V", "a", "l", "o", "r", " ", "d", "e", " ", "I", "C", "M", "S">>]

\* the columns of a ledger after "Linhas" and "Chave do Documento", in the
\* order of the table, and the cells a data record holds under them
EfdRest ==
    <<COLUNAS_EFD.efd_file,
      COLUNAS_EFD.efd_line,
      COLUNAS_EFD.cnpj_contribuinte,
      COLUNAS_EFD.nome_contribuinte,
      COLUNAS_EFD.periodo_apuracao,
      COLUNAS_EFD.periodo_apuracao_ano,
      COLUNAS_EFD.periodo_apuracao_tri,
      COLUNAS_EFD.periodo_apuracao_mes,
      COLUNAS_EFD.tipo_de_operacao,
      COLUNAS_EFD.tipo_de_credito,
      COLUNAS_EFD.registro_bloco,
      COLUNAS_EFD.codigo_cst,
      COLUNAS_EFD.codigo_cfop,
      COLUNAS_EFD.natureza_bc,
      COLUNAS_EFD.cnpj_participante,
      COLUNAS_EFD.cpf_participante,
      COLUNAS_EFD.nome_participante,
      COLUNAS_EFD.num_doc_fiscal,
      COLUNAS_EFD.modelo_doc_fiscal,
      COLUNAS_EFD.num_item,
      COLUNAS_EFD.data_emissao_nota,
      COLUNAS_EFD.data_lancamento,
      COLUNAS_EFD.tipo_do_item,
      COLUNAS_EFD.descricao_do_item,
      COLUNAS_EFD.codigo_ncm,
      COLUNAS_EFD.escrituracao_contabil,
      COLUNAS_EFD.info_complem_doc_fiscal,
      COLUNAS_EFD.valor_do_item,
      COLUNAS_EFD.valor_bc_contrib,
      COLUNAS_EFD.aliq_pis,
      COLUNAS_EFD.aliq_cofins,
      COLUNAS_EFD.valor_de_pis,
      COLUNAS_EFD.valor_de_cofins,
      COLUNAS_EFD.valor_de_iss,
      COLUNAS_EFD.valor_bc_icms,
      COLUNAS_EFD.aliq_icms,
      COLUNAS_EFD.valor_de_icms>>

EfdFill == [i \in 1..Len(EfdRest) |-> <<"0">>]

\* the reference maps as run() injects them (main.rs 33-49): loaded, closed,
\* propagated, inverted
RunMaps(nfes0, compl0) ==
    {[cte_complementar |-> c,
      cte_nfes |-> expand_cte_nfes(nfes0, c),
      nfe_ctes |-> get_nfe_ctes(expand_cte_nfes(nfes0, c))] :
        c \in expand_cte_complementar(compl0)}

ReferenceMaps ==
    UNION {RunMaps(n, c) :
             n \in {EmptyMap, CteA :> {Nfe1}, CteA :> {Nfe1, Nfe2}},
             c \in {EmptyMap, CteA :> {CteB} @@ CteB :> {CteA}}}

EfdConfigs ==
    {[efd_path |-> "efd.csv", arquivos_csv |-> <<>>, target |-> "ZZZ.csv",
      colunas_efd |-> COLUNAS_EFD, colunas_doc |-> <<>>,
      nfe_ctes |-> m.nfe_ctes, cte_nfes |-> m.cte_nfes,
      cte_complementar |-> m.cte_complementar] : m \in ReferenceMaps}

\* values of the key column: plain keys, a key with punctuation and blanks,
\* 43 and 45 digits, no value, letters, and values holding decimal digits
\* that are not ASCII
KeyCells ==
    {Nfe1, Nfe2, CteA,
     <<" ">> \o SubSeq(Nfe1, 1, 20) \o <<".">> \o SubSeq(Nfe1, 21, 44) \o <<"-">>,
     Rep("1", 43), Rep("1", 45), <<>>, <<"a", "b", "c">>,
     Rep("U+0663", 44),
     SubSeq(Nfe1, 1, 43) \o <<"U+0663">>,
     Nfe1 \o <<"U+0663">>}

\* a data record of the ledger: "Linhas", the key, a cell for every other
\* column; or one field too many
EfdRows ==
    {<<<<"1">>, c>> \o EfdFill : c \in KeyCells}
        \cup {<<<<"1">>, Nfe1, <<"x">>>> \o EfdFill}

\* headers: every column of the table, the first two in either order or
\* with blanks around them; "Chave do Documento" replaced by another name; a
\* name repeated; a blank name
EfdHeaders ==
    {<<COLUNAS_EFD.num_linha, COLUNAS_EFD.chave_documento>> \o EfdRest,
     <<COLUNAS_EFD.chave_documento, COLUNAS_EFD.num_linha>> \o EfdRest,
     <<<<" ">> \o COLUNAS_EFD.num_linha, COLUNAS_EFD.chave_documento \o <<" ">>>> \o EfdRest,
     <<COLUNAS_EFD.num_linha, <<"O", "u", "t", "r", "a">>>> \o EfdRest,
     <<COLUNAS_EFD.num_linha, COLUNAS_EFD.chave_documento, COLUNAS_EFD.num_linha>> \o EfdRest,
     <<COLUNAS_EFD.num_linha, COLUNAS_EFD.chave_documento, <<" ">>>> \o EfdRest}

\* the sequences of at most n members of S
RECURSIVE SeqsUpTo(_, _)
SeqsUpTo(S, n) ==
    IF n = 0 THEN {<<>>}
    ELSE LET shorter == SeqsUpTo(S, n - 1)
         IN  shorter \cup {Append(q, x) : q \in {q \in shorter : Len(q) = n - 1}, x \in S}

\* no file; a file of every header and of at most MaxRows records; a file of
\* the columns "Linhas" and "Chave do Documento" alone
EfdFiles ==
    {NoFile} \cup
    {[exists |-> TRUE, header |-> h, rows |-> r] :
        h \in EfdHeaders, r \in SeqsUpTo(EfdRows, MaxRows)} \cup
    {[exists |-> TRUE,
      header |-> <<COLUNAS_EFD.num_linha, COLUNAS_EFD.chave_documento>>,
      rows |-> <<<<<<"1">>, Nfe1>>>>]}

-----------------------------------------------------------------------------
(* Inputs of the reference loaders *)

CteC == MkKey("5", <<"5", "7">>)

\* a line as BufReader::lines yields it: Ok(text) or Err
TextLine(t) == [ok |-> TRUE, text |-> t]
UnreadableLine == [ok |-> FALSE, text |-> <<>>]

\* a key of 43 ASCII digits and one ARABIC-INDIC digit, of model 57 by its
\* positions 21-22
CteArabic == SubSeq(CteA, 1, 43) \o <<"U+0663">>

\* lines of a reference text: keys of the models 57 and 55 in several
\* orders and numbers, separated by a space or a semicolon; a key after a
\* letter, a key with a 45th digit, a key with a non-ASCII digit; an empty
\* line; a line that cannot be read
RefLines ==
    {TextLine(CteA \o <<" ">> \o Nfe1 \o <<" ">> \o Nfe2),
     TextLine(CteA \o <<";">> \o Nfe2),
     TextLine(CteB \o <<" ">> \o Nfe1 \o <<" ">> \o CteA),
     TextLine(Nfe1 \o <<" ">> \o CteA \o <<" ">> \o Nfe2),
     TextLine(CteA \o <<" ">> \o CteB),
     TextLine(CteB \o <<" ">> \o CteC \o <<" ">> \o Nfe1),
     TextLine(CteA \o <<" ">> \o CteA),
     TextLine(<<"c", "t", "e", ":">> \o CteA \o <<" ">> \o Nfe1),
     TextLine(<<"X">> \o CteA \o <<" ">> \o CteB \o <<" ">> \o Nfe1),
     TextLine(CteArabic \o <<" ">> \o CteA \o <<" ">> \o Nfe1),
     TextLine(CteA \o <<"9", " ">> \o CteB \o <<" ">> \o CteA),
     TextLine(<<>>),
     UnreadableLine}

RefFiles ==
    {NoText} \cup {[exists |-> TRUE, lines |-> l] : l \in SeqsUpTo(RefLines, MaxLines)}

-----------------------------------------------------------------------------
(* Specification of the two reference loaders as functions of a text *)

InitLoad ==
    /\ ref_file \in RefFiles
    /\ loaded_nfes = NotCalled
    /\ loaded_compl = NotCalled
    /\ config = NoConfig
    /\ GraphIdle
    /\ EfdIdle
    /\ DocIdle
    /\ MatchIdle
    /\ MergeIdle
    /\ GapIdle
    /\ RunIdle

\* main.rs 33: ler_todas_as_nfes_deste_cte(file_cte)
LerTodasAsNfes ==
    /\ loaded_nfes = NotCalled
    /\ loaded_nfes' \in ler_todas_as_nfes_deste_cte(ref_file)
    /\ UNCHANGED <<ref_file, loaded_compl>>
    /\ UNCHANGED LoadOthers

\* main.rs 36: ler_chave_complementar_deste_cte(file_comp)
LerChaveComplementar ==
    /\ loaded_compl = NotCalled
    /\ loaded_compl' \in ler_chave_complementar_deste_cte(ref_file)
    /\ UNCHANGED <<ref_file, loaded_nfes>>
    /\ UNCHANGED LoadOthers

NextLoad == LerTodasAsNfes \/ LerChaveComplementar

SpecLoad == InitLoad /\ [][NextLoad]_vars

-----------------------------------------------------------------------------
(* Specification of get_efd_info as a function of the configuration and of *)
(* the ledger file                                                          *)

InitEfd ==
    /\ config \in EfdConfigs
    /\ ledger \in EfdFiles
    /\ efd_result = NotCalled
    /\ GraphIdle
    /\ DocIdle
    /\ MatchIdle
    /\ MergeIdle
    /\ LoadIdle
    /\ GapIdle
    /\ RunIdle

\* main.rs 57: let keys_efd = get_efd_info(&config)?
GetEfdInfo ==
    /\ efd_result = NotCalled
    /\ efd_result' \in get_efd_info(config, ledger)
    /\ UNCHANGED <<config, ledger>>
    /\ UNCHANGED EfdOthers

NextEfd == GetEfdInfo

SpecEfd == InitEfd /\ [][NextEfd]_vars

-----------------------------------------------------------------------------
(* Claims about the ledger key extractor *)

\* a value with every character that is not an ASCII digit stripped
AsciiDigitsOf(t) == SelectSeq(t, LAMBDA c : c \in AsciiDigits)

\* exactly 44 ASCII digits
IsAsciiKey(k) == Len(k) = KeyLen /\ \A i \in 1..Len(k) : k[i] \in AsciiDigits

\* the column of the ledger's header named `name`, and the set of the
\* well-formed keys of that column: the values that, stripped of non-digits,
\* are exactly 44 ASCII digits
ColumnOf(header, name) ==
    CHOOSE i \in 1..Len(header) : Trim(header[i]) = name

WellFormedKeysOf(file, name) ==
    {AsciiDigitsOf(file.rows[r][ColumnOf(file.header, name)]) : r \in 1..Len(file.rows)}
        \cap {k \in {AsciiDigitsOf(file.rows[r][ColumnOf(file.header, name)]) :
                        r \in 1..Len(file.rows)} : IsAsciiKey(k)}

Returned == efd_result # NotCalled /\ efd_result.ok

\* C5: get_efd_info returns exactly every well-formed key K of the ledger's
\* key column together with cte_nfes[K], cte_complementar[K] and nfe_ctes[K]
\* (one hop, nothing else); a key with no entry contributes only itself.
C5_ExactlyOneHop ==
    Returned =>
        efd_result.keys =
            UNION {{K} \cup Get(config.cte_nfes, K) \cup Get(config.cte_complementar, K)
                       \cup Get(config.nfe_ctes, K) :
                   K \in WellFormedKeysOf(ledger, COLUNAS_EFD.chave_documento)}

\* C6: every key of the Ledger Key Set is exactly 44 ASCII digits.
C6_KeysAre44AsciiDigits ==
    Returned => \A k \in efd_result.keys : IsAsciiKey(k)

-----------------------------------------------------------------------------
(* Inputs of the document matcher *)

\* COLUNAS_DOC, metadata.rs 116-283: the names of the columns of a file of
\* fiscal documents
COLUNAS_DOC ==
    [cnpj_contribuinte |->
        <<"C", "N", "P", "J", " ", "d", "o", " ", "C", "o", "n", "t", "r", "i", "b", "u", "i", "n", "t", "e", " ", ":", " ", "N", "F", " ", "I", "t", "e", "m", " ", "(", "T", "o", "d", "o", "s", ")">>,
     nome_contribuinte |->
        <<"N", "o", "m", "e", " ", "d", "o", " ", "C", "o", "n", "t", "r", "i", "b", "u", "i", "n", "t", "e", " ", ":", " ", "N", "F", " ", "I", "t", "e", "m", " ", "(", "T", "o", "d", "o", "s", ")">>,
     entrada_ou_saida |->
        <<"E", "n", "t", "r", "a", "d", "a", "/", "S", "a", "U+00ED", "d", "a", " ", ":", " ", "N", "F", " ", "(", "T", "o", "d", "o", "s", ")">>,
     cnpj_participante |->
        <<"C", "P", "F", "/", "C", "N", "P", "J", " ", "d", "o", " ", "P", "a", "r", "t", "i", "c", "i", "p", "a", "n", "t", "e", " ", ":", " ", "N", "F", " ", "(", "T", "o", "d", "o", "s", ")">>,
     nome_participante |->
        <<"N", "o", "m", "e", " ", "d", "o", " ", "P", "a", "r", "t", "i", "c", "i", "p", "a", "n", "t", "e", " ", ":", " ", "N", "F", " ", "(", "T", "o", "d", "o", "s", ")">>,
     codigo_crt |->
        <<"C", "R", "T", " ", ":", " ", "N", "F", " ", "(", "T", "o", "d", "o", "s", ")">>,
     observacoes |->
        <<"O", "b", "s", "e", "r", "v", "a", "U+00E7", "U+00F5", "e", "s", " ", ":", " ", "N", "F", " ", "(", "T", "o", "d", "o", "s", ")">>,
     cnpj_do_remetente_ind01 |->
        <<"C", "T", "e", " ", "-", " ", "R", "e", "m", "e", "t", "e", "n", "t", "e", " ", "d", "a", "s", " ", "m", "e", "r", "c", "a", "d", "o", "r", "i", "a", "s", " ", "t", "r", "a", "n", "s", "p", "o", "r", "t", "a", "d", "a", "s", ":", " ", "C", "N", "P", "J", "/", "C", "P", "F", " ", "d", "e", " ", "C", "o", "n", "h", "e", "c", "i", "m", "e", "n", "t", "o", " ", ":", " ", "C", "o", "n", "h", "e", "c", "i", "m", "e", "n", "t", "o", "V", "a", "l", "o", "r", "e", "s", "P", "r", "e", "s", "t", "a", "c", "a", "o", "S", "e", "r", "v", "i", "c", "o", "-", "C", "o", "m", "p", "o", "n", "e", "n", "t", "e", "s">>,
     cnpj_do_remetente_ind02 |->
        <<"C", "T", "e", " ", "-", " ", "R", "e", "m", "e", "t", "e", "n", "t", "e", " ", "d", "a", "s", " ", "m", "e", "r", "c", "a", "d", "o", "r", "i", "a", "s", " ", "t", "r", "a", "n", "s", "p", "o", "r", "t", "a", "d", "a", "s", ":", " ", "C", "N", "P", "J", "/", "C", "P", "F", " ", "d", "e", " ", "C", "o", "n", "h", "e", "c", "i", "m", "e", "n", "t", "o", " ", ":", " ", "C", "o", "n", "h", "e", "c", "i", "m", "e", "n", "t", "o", "I", "n", "f", "o", "r", "m", "a", "c", "a", "o", "N", "F", "e">>,
     remetente_nome |->
        <<"C", "T", "e", " ", "-", " ", "R", "e", "m", "e", "t", "e", "n", "t", "e", " ", "d", "a", "s", " ", "m", "e", "r", "c", "a", "d", "o", "r", "i", "a", "s", " ", "t", "r", "a", "n", "s", "p", "o", "r", "t", "a", "d", "a", "s", ":", " ", "N", "o", "m", "e", " ", "d", "e", " ", "C", "o", "n", "h", "e", "c", "i", "m", "e", "n", "t", "o", " ", ":", " ", "C", "o", "n", "h", "e", "c", "i", "m", "e", "n", "t", "o", "I", "n", "f", "o", "r", "m", "a", "c", "a", "o", "N", "F", "e">>,
     remetente_municipio |->
        <<"C", "T", "e", " ", "-", " ", "R", "e", "m", "e", "t", "e", "n", "t", "e", " ", "d", "a", "s", " ", "m", "e", "r", "c", "a", "d", "o", "r", "i", "a", "s", " ", "t", "r", "a", "n", "s", "p", "o", "r", "t", "a", "d", "a", "s", ":", " ", "M", "u", "n", "i", "c", "U+00ED", "p", "i", "o", " ", "d", "e", " ", "C", "o", "n", "h", "e", "c", "i", "m", "e", "n", "t", "o", " ", ":", " ", "C", "o", "n", "h", "e", "c", "i", "m", "e", "n", "t", "o", "I", "n", "f", "o", "r", "m", "a", "c", "a", "o", "N", "F", "e">>,
     papel_tomador_ind01 |->
        <<"D", "e", "s", "c", "r", "i", "U+00E7", "U+00E3", "o", " ", "C", "T", "e", " ", "-", " ", "I", "n", "d", "i", "c", "a", "d", "o", "r", " ", "d", "o", " ", "'", "p", "a", "p", "e", "l", "'", " ", "d", "o", " ", "t", "o", "m", "a", "d", "o", "r", " ", "d", "o", " ", "s", "e", "r", "v", "i", "U+00E7", "o", " ", "d", "e", " ", "C", "o", "n", "h", "e", "c", "i", "m", "e", "n", "t", "o", " ", ":", " ", "C", "o", "n", "h", "e", "c", "i", "m", "e", "n", "t", "o", "V", "a", "l", "o", "r", "e", "s", "P", "r", "e", "s", "t", "a", "c", "a", "o", "S", "e", "r", "v", "i", "c", "o", "-", "C", "o", "m", "p", "o", "n", "e", "n", "t", "e", "s">>,
     papel_tomador_ind02 |->
        <<"D", "e", "s", "c", "r", "i", "U+00E7", "U+00E3", "o", " ", "C", "T", "e", " ", "-", " ", "I", "n", "d", "i", "c", "a", "d", "o", "r", " ", "d", "o", " ", "'", "p", "a", "p", "e", "l", "'", " ", "d", "o", " ", "t", "o", "m", "a", "d", "o", "r", " ", "d", "o", " ", "s", "e", "r", "v", "i", "U+00E7", "o", " ", "d", "e", " ", "C", "o", "n", "h", "e", "c", "i", "m", "e", "n", "t", "o", " ", ":", " ", "C", "o", "n", "h", "e", "c", "i", "m", "e", "n", "t", "o", "I", "n", "f", "o", "r", "m", "a", "c", "a", "o", "N", "F", "e">>,
     cnpj_do_tomador_ind01 |->
        <<"C", "T", "e", " ", "-", " ", "O", "u", "t", "r", "o", " ", "t", "i", "p", "o", " ", "d", "e", " ", "T", "o", "m", "a", "d", "o", "r", ":", " ", "C", "N", "P", "J", "/", "C", "P", "F", " ", "d", "e", " ", "C", "o", "n", "h", "e", "c", "i", "m", "e", "n", "t", "o", " ", ":", " ", "C", "o", "n", "h", "e", "c", "i", "m", "e", "n", "t", "o", "V", "a", "l", "o", "r", "e", "s", "P", "r", "e", "s", "t", "a", "c", "a", "o", "S", "e", "r", "v", "i", "c", "o", "-", "C", "o", "m", "p", "o", "n", "e", "n", "t", "e", "s">>,
     cnpj_do_tomador_ind02 |->
        <<"C", "T", "e", " ", "-", " ", "O", "u", "t", "r", "o", " ", "t", "i", "p", "o", " ", "d", "e", " ", "T", "o", "m", "a", "d", "o", "r", ":", " ", "C", "N", "P", "J", "/", "C", "P", "F", " ", "d", "e", " ", "C", "o", "n", "h", "e", "c", "i", "m", "e", "n", "t", "o", " ", ":", " ", "C", "o", "n", "h", "e", "c", "i", "m", "e", "n", "t", "o", "I", "n", "f", "o", "r", "m", "a", "c", "a", "o", "N", "F", "e">>,
     inicio_estado |->
        <<"C", "T", "e", " ", "-", " ", "U", "F", " ", "d", "o", " ", "i", "n", "U+00ED", "c", "i", "o", " ", "d", "a", " ", "p", "r", "e", "s", "t", "a", "U+00E7", "U+00E3", "o", " ", "d", "e", " ", "C", "o", "n", "h", "e", "c", "i", "m", "e", "n", "t", "o", " ", ":", " ", "C", "o", "n", "h", "e", "c", "i", "m", "e", "n", "t", "o", "V", "a", "l", "o", "r", "e", "s", "P", "r", "e", "s", "t", "a", "c", "a", "o", "S", "e", "r", "v", "i", "c", "o", "-", "C", "o", "m", "p", "o", "n", "e", "n", "t", "e", "s">>,
     inicio_munici |->
        <<"C", "T", "e", " ", "-", " ", "N", "o", "m", "e", " ", "d", "o", " ", "M", "u", "n", "i", "c", "U+00ED", "p", "i", "o", " ", "d", "o", " ", "i", "n", "U+00ED", "c", "i", "o", " ", "d", "a", " ", "p", "r", "e", "s", "t", "a", "U+00E7", "U+00E3", "o", " ", "d", "e", " ", "C", "o", "n", "h", "e", "c", "i", "m", "e", "n", "t", "o", " ", ":", " ", "C", "o", "n", "h", "e", "c", "i", "m", "e", "n", "t", "o", "V", "a", "l", "o", "r", "e", "s", "P", "r", "e", "s", "t", "a", "c", "a", "o", "S", "e", "r", "v", "i", "c", "o", "-", "C", "o", "m", "p", "o", "n", "e", "n", "t", "e", "s">>,
     final_estado |->
        <<"C", "T", "e", " ", "-", " ", "U", "F", " ", "d", "o", " ", "t", "U+00E9", "r", "m", "i", "n", "o", " ", "d", "a", " ", "p", "r", "e", "s", "t", "a", "U+00E7", "U+00E3", "o", " ", "d", "e", " ", "C", "o", "n", "h", "e", "c", "i", "m", "e", "n", "t", "o", " ", ":", " ", "C", "o", "n", "h", "e", "c", "i", "m", "e", "n", "t", "o", "V", "a", "l", "o", "r", "e", "s", "P", "r", "e", "s", "t", "a", "c", "a", "o", "S", "e", "r", "v", "i", "c", "o", "-", "C", "o", "m", "p", "o", "n", "e", "n", "t", "e", "s">>,
     final_munici |->
        <<"C", "T", "e", " ", "-", " ", "N", "o", "m", "e", " ", "d", "o", " ", "M", "u", "n", "i", "c", "U+00ED", "p", "i", "o", " ", "d", "o", " ", "t", "U+00E9", "r", "m", "i", "n", "o", " ", "d", "a", " ", "p", "r", "e", "s", "t", "a", "U+00E7", "U+00E3", "o", " ", "d", "e", " ", "C", "o", "n", "h", "e", "c", "i", "m", "e", "n", "t", "o", " ", ":", " ", "C", "o", "n", "h", "e", "c", "i", "m", "e", "n", "t", "o", "V", "a", "l", "o", "r", "e", "s", "P", "r", "e", "s", "t", "a", "c", "a", "o", "S", "e", "r", "v", "i", "c", "o", "-", "C", "o", "m", "p", "o", "n", "e", "n", "t", "e", "s">>,
     info_destinatario_cnpj |->
        <<"C", "T", "e", " ", "-", " ", "I", "n", "f", "o", "r", "m", "a", "U+00E7", "U+00F5", "e", "s", " ", "d", "o", " ", "D", "e", "s", "t", "i", "n", "a", "t", "U+00E1", "r", "i", "o", " ", "d", "o", " ", "C", "T", "-", "e", ":", " ", "C", "N", "P", "J", "/", "C", "P", "F", " ", "d", "e", " ", "C", "o", "n", "h", "e", "c", "i", "m", "e", "n", "t", "o", " ", ":", " ", "C", "o", "n", "h", "e", "c", "i", "m", "e", "n", "t", "o", "V", "a", "l", "o", "r", "e", "s", "P", "r", "e", "s", "t", "a", "c", "a", "o", "S", "e", "r", "v", "i", "c", "o", "-", "C", "o", "m", "p", "o", "n", "e", "n", "t", "e", "s">>,
     info_destinatario_nome |->
        <<"C", "T", "e", " ", "-", " ", "I", "n", "f", "o", "r", "m", "a", "U+00E7", "U+00F5", "e", "s", " ", "d", "o", " ", "D", "e", "s", "t", "i", "n", "a", "t", "U+00E1", "r", "i", "o", " ", "d", "o", " ", "C", "T", "-", "e", ":", " ", "N", "o", "m", "e", " ", "d", "e", " ", "C", "o", "n", "h", "e", "c", "i", "m", "e", "n", "t", "o", " ", ":", " ", "C", "o", "n", "h", "e", "c", "i", "m", "e", "n", "t", "o", "V", "a", "l", "o", "r", "e", "s", "P", "r", "e", "s", "t", "a", "c", "a", "o", "S", "e", "r", "v", "i", "c", "o", "-", "C", "o", "m", "p", "o", "n", "e", "n", "t", "e", "s">>,
     local_entrega |->
        <<"C", "T", "e", " ", "-", " ", "L", "o", "c", "a", "l", " ", "d", "e", " ", "E", "n", "t", "r", "e", "g", "a", " ", "c", "o", "n", "s", "t", "a", "n", "t", "e", " ", "n", "a", " ", "N", "o", "t", "a", " ", "F", "i", "s", "c", "a", "l", ":", " ", "N", "o", "m", "e", " ", "d", "e", " ", "C", "o", "n", "h", "e", "c", "i", "m", "e", "n", "t", "o", " ", ":", " ", "C", "o", "n", "h", "e", "c", "i", "m", "e", "n", "t", "o", "V", "a", "l", "o", "r", "e", "s", "P", "r", "e", "s", "t", "a", "c", "a", "o", "S", "e", "r", "v", "i", "c", "o", "-", "C", "o", "m", "p", "o", "n", "e", "n", "t", "e", "s">>,
     descricao_nat_oper |->
        <<"D", "e", "s", "c", "r", "i", "U+00E7", "U+00E3", "o", " ", "d", "a", " ", "N", "a", "t", "u", "r", "e", "z", "a", " ", "d", "a", " ", "O", "p", "e", "r", "a", "U+00E7", "U+00E3", "o", " ", ":", " ", "N", "F", " ", "I", "t", "e", "m", " ", "(", "T", "o", "d", "o", "s", ")">>,
     nota_cancelada |->
        <<"C", "a", "n", "c", "e", "l", "a", "d", "a", " ", ":", " ", "N", "F", " ", "(", "T", "o", "d", "o", "s", ")">>,
     registro_de_origem |->
        <<"R", "e", "g", "i", "s", "t", "r", "o", " ", "d", "e", " ", "O", "r", "i", "g", "e", "m", " ", "d", "o", " ", "I", "t", "e", "m", " ", ":", " ", "N", "F", " ", "I", "t", "e", "m", " ", "(", "T", "o", "d", "o", "s", ")">>,
     natureza_bc |->
        <<"N", "a", "t", "u", "r", "e", "z", "a", " ", "d", "a", " ", "B", "a", "s", "e", " ", "d", "e", " ", "C", "U+00E1", "l", "c", "u", "l", "o", " ", "d", "o", " ", "C", "r", "U+00E9", "d", "i", "t", "o", " ", "D", "e", "s", "c", "r", "i", "U+00E7", "U+00E3", "o", " ", ":", " ", "N", "F", " ", "I", "t", "e", "m", " ", "(", "T", "o", "d", "o", "s", ")">>,
     modelo_descricao |->
        <<"M", "o", "d", "e", "l", "o", " ", "-", " ", "D", "e", "s", "c", "r", "i", "U+00E7", "U+00E3", "o", " ", ":", " ", "N", "F", " ", "I", "t", "e", "m", " ", "(", "T", "o", "d", "o", "s", ")">>,
     num_doc_fiscal |->
        <<"N", "U+00FA", "m", "e", "r", "o", " ", "d", "a", " ", "N", "o", "t", "a", " ", ":", " ", "N", "F", " ", "I", "t", "e", "m", " ", "(", "T", "o", "d", "o", "s", ")">>,
     chave44_digitos |->
        <<"C", "h", "a", "v", "e", " ", "d", "a", " ", "N", "o", "t", "a", " ", "F", "i", "s", "c", "a", "l", " ", "E", "l", "e", "t", "r", "U+00F4", "n", "i", "c", "a", " ", ":", " ", "N", "F", " ", "I", "t", "e", "m", " ", "(", "T", "o", "d", "o", "s", ")">>,
     chave_de_acesso |->
        <<"I", "n", "f", ".", " ", "N", "F", "e", " ", "-", " ", "C", "h", "a", "v", "e", " ", "d", "e", " ", "a", "c", "e", "s", "s", "o", " ", "d", "a", " ", "N", "F", "-", "e", " ", ":", " ", "C", "o", "n", "h", "e", "c", "i", "m", "e", "n", "t", "o", "I", "n", "f", "o", "r", "m", "a", "c", "a", "o", "N", "F", "e">>,
     observacoes_gerais |->
        <<"C", "T", "e", " ", "-", " ", "O", "b", "s", "e", "r", "v", "a", "U+00E7", "U+00F5", "e", "s", " ", "G", "e", "r", "a", "i", "s", " ", "d", "e", " ", "C", "o", "n", "h", "e", "c", "i", "m", "e", "n", "t", "o", " ", ":", " ", "C", "o", "n", "h", "e", "c", "i", "m", "e", "n", "t", "o", "I", "n", "f", "o", "r", "m", "a", "c", "a", "o", "N", "F", "e">>,
     dia_emissao_nota |->
        <<"D", "i", "a", " ", "d", "a", " ", "E", "m", "i", "s", "s", "U+00E3", "o", " ", ":", " ", "N", "F", " ", "I", "t", "e", "m", " ", "(", "T", "o", "d", "o", "s", ")">>,
     num_di |->
        <<"N", "U+00FA", "m", "e", "r", "o", " ", "d", "a", " ", "D", "I", " ", ":", " ", "N", "F", " ", "I", "t", "e", "m", " ", "(", "T", "o", "d", "o", "s", ")">>,
     num_item |->
        <<"N", "U+00FA", "m", "e", "r", "o", " ", "d", "o", " ", "I", "t", "e", "m", " ", ":", " ", "N", "F", " ", "I", "t", "e", "m", " ", "(", "T", "o", "d", "o", "s", ")">>,
     codigo_cfop |->
        <<"C", "U+00F3", "d", "i", "g", "o", " ", "C", "F", "O", "P", " ", ":", " ", "N", "F", " ", "I", "t", "e", "m", " ", "(", "T", "o", "d", "o", "s", ")">>,
     descricao_cfop |->
        <<"D", "e", "s", "c", "r", "i", "U+00E7", "U+00E3", "o", " ", "C", "F", "O", "P", " ", ":", " ", "N", "F", " ", "I", "t", "e", "m", " ", "(", "T", "o", "d", "o", "s", ")">>,
     descricao_da_mercadoria |->
        <<"D", "e", "s", "c", "r", "i", "U+00E7", "U+00E3", "o", " ", "d", "a", " ", "M", "e", "r", "c", "a", "d", "o", "r", "i", "a", "/", "S", "e", "r", "v", "i", "U+00E7", "o", " ", ":", " ", "N", "F", " ", "I", "t", "e", "m", " ", "(", "T", "o", "d", "o", "s", ")">>,
     codigo_ncm |->
        <<"C", "U+00F3", "d", "i", "g", "o", " ", "N", "C", "M", " ", ":", " ", "N", "F", " ", "I", "t", "e", "m", " ", "(", "T", "o", "d", "o", "s", ")">>,
     descricao_ncm |->
        <<"D", "e", "s", "c", "r", "i", "U+00E7", "U+00E3", "o", " ", "N", "C", "M", " ", ":", " ", "N", "F", " ", "I", "t", "e", "m", " ", "(", "T", "o", "d", "o", "s", ")">>,
     aliquota_cofins |->
        <<"C", "O", "F", "I", "N", "S", ":", " ", "A", "l", "U+00ED", "q", "u", "o", "t", "a", " ", "a", "d", " ", "v", "a", "l", "o", "r", "e", "m", " ", "-", " ", "A", "t", "r", "i", "b", "u", "t", "o", " ", ":", " ", "N", "F", " ", "I", "t", "e", "m", " ", "(", "T", "o", "d", "o", "s", ")">>,
     aliquota_pis |->
        <<"P", "I", "S", ":", " ", "A", "l", "U+00ED", "q", "u", "o", "t", "a", " ", "a", "d", " ", "v", "a", "l", "o", "r", "e", "m", " ", "-", " ", "A", "t", "r", "i", "b", "u", "t", "o", " ", ":", " ", "N", "F", " ", "I", "t", "e", "m", " ", "(", "T", "o", "d", "o", "s", ")">>,
     cst_cofins_descr |->
        <<"C", "S", "T", " ", "C", "O", "F", "I", "N", "S", " ", "D", "e", "s", "c", "r", "i", "U+00E7", "U+00E3", "o", " ", ":", " ", "N", "F", " ", "I", "t", "e", "m", " ", "(", "T", "o", "d", "o", "s", ")">>,
     cst_pis_descr |->
        <<"C", "S", "T", " ", "P", "I", "S", " ", "D", "e", "s", "c", "r", "i", "U+00E7", "U+00E3", "o", " ", ":", " ", "N", "F", " ", "I", "t", "e", "m", " ", "(", "T", "o", "d", "o", "s", ")">>,
     valor_total |->
        <<"V", "a", "l", "o", "r", " ", "T", "o", "t", "a", "l", " ", ":", " ", "N", "F", " ", "(", "T", "o", "d", "o", "s", ")", " ", "S", "O", "M", "A">>,
     valor_proporcional |->
        <<"V", "a", "l", "o", "r", " ", "d", "a", " ", "N", "o", "t", "a", " ", "P", "r", "o", "p", "o", "r", "c", "i", "o", "n", "a", "l", " ", ":", " ", "N", "F", " ", "I", "t", "e", "m", " ", "(", "T", "o", "d", "o", "s", ")", " ", "S", "O", "M", "A">>,
     valor_descontos |->
        <<"V", "a", "l", "o", "r", " ", "d", "o", "s", " ", "D", "e", "s", "c", "o", "n", "t", "o", "s", " ", ":", " ", "N", "F", " ", "I", "t", "e", "m", " ", "(", "T", "o", "d", "o", "s", ")", " ", "S", "O", "M", "A">>,
     valor_seguro |->
        <<"V", "a", "l", "o", "r", " ", "S", "e", "g", "u", "r", "o", " ", ":", " ", "N", "F", " ", "(", "T", "o", "d", "o", "s", ")", " ", "S", "O", "M", "A">>,
     valor_tributo_cofins |->
        <<"C", "O", "F", "I", "N", "S", ":", " ", "V", "a", "l", "o", "r", " ", "d", "o", " ", "T", "r", "i", "b", "u", "t", "o", " ", ":", " ", "N", "F", " ", "I", "t", "e", "m", " ", "(", "T", "o", "d", "o", "s", ")", " ", "S", "O", "M", "A">>,
     valor_tributo_pis |->
        <<"P", "I", "S", ":", " ", "V", "a", "l", "o", "r", " ", "d", "o", " ", "T", "r", "i", "b", "u", "t", "o", " ", ":", " ", "N", "F", " ", "I", "t", "e", "m", " ", "(", "T", "o", "d", "o", "s", ")", " ", "S", "O", "M", "A">>,
     valor_tributo_ipi |->
        <<"I", "P", "I", ":", " ", "V", "a", "l", "o", "r", " ", "d", "o", " ", "T", "r", "i", "b", "u", "t", "o", " ", ":", " ", "N", "F", " ", "I", "t", "e", "m", " ", "(", "T", "o", "d", "o", "s", ")", " ", "S", "O", "M", "A">>,
     valor_bc_iss |->
        <<"I", "S", "S", ":", " ", "B", "a", "s", "e", " ", "d", "e", " ", "C", "U+00E1", "l", "c", "u", "l", "o", " ", ":", " ", "N", "F", " ", "I", "t", "e", "m", " ", "(", "T", "o", "d", "o", "s", ")", " ", "S", "O", "M", "A">>,
     valor_tributo_iss |->
        <<"I", "S", "S", ":", " ", "V", "a", "l", "o", "r", " ", "d", "o", " ", "T", "r", "i", "b", "u", "t", "o", " ", ":", " ", "N", "F", " ", "I", "t", "e", "m", " ", "(", "T", "o", "d", "o", "s", ")", " ", "S", "O", "M", "A">>,
     aliquota_icms |->
        <<"I", "C", "M", "S", ":", " ", "A", "l", "U+00ED", "q", "u", "o", "t", "a", " ", ":", " ", "N", "F", " ", "I", "t", "e", "m", " ", "(", "T", "o", "d", "o", "s", ")", " ", "N", "O", "I", "S", "E", " ", "O", "R">>,
     valor_bc_icms |->
        <<"I", "C", "M", "S", ":", " ", "B", "a", "s", "e", " ", "d", "e", " ", "C", "U+00E1", "l", "c", "u", "l", "o", " ", ":", " ", "N", "F", " ", "I", "t", "e", "m", " ", "(", "T", "o", "d", "o", "s", ")", " ", "S", "O", "M", "A">>,
     valor_icms |->
        <<"I", "C", "M", "S", ":", " ", "V", "a", "l", "o", "r", " ", "d", "o", " ", "T", "r", "i", "b", "u", "t", "o", " ", ":", " ", "N", "F", " ", "I", "t", "e", "m", " ", "(", "T", "o", "d", "o", "s", ")", " ", "S", "O", "M", "A">>,
     valor_icms_sub |->
        <<"I", "C", "M", "S", " ", "p", "o", "r", " ", "S", "u", "b", "s", "t", "i", "t", "u", "i", "U+00E7", "U+00E3", "o", ":", " ", "V", "a", "l", "o", "r", " ", "d", "o", " ", "T", "r", "i", "b", "u", "t", "o", " ", ":", " ", "N", "F", " ", "I", "t", "e", "m", " ", "(", "T", "o", "d", "o", "s", ")", " ", "S", "O", "M", "A">>]

\* the columns of a file after the key column and "Observacoes", in the
\* order of the table, and the cells a data record holds under them
DocRest ==
    <<COLUNAS_DOC.cnpj_contribuinte,
      COLUNAS_DOC.nome_contribuinte,
      COLUNAS_DOC.entrada_ou_saida,
      COLUNAS_DOC.cnpj_participante,
      COLUNAS_DOC.nome_participante,
      COLUNAS_DOC.codigo_crt,
      COLUNAS_DOC.cnpj_do_remetente_ind01,
      COLUNAS_DOC.cnpj_do_remetente_ind02,
      COLUNAS_DOC.remetente_nome,
      COLUNAS_DOC.remetente_municipio,
      COLUNAS_DOC.papel_tomador_ind01,
      COLUNAS_DOC.papel_tomador_ind02,
      COLUNAS_DOC.cnpj_do_tomador_ind01,
      COLUNAS_DOC.cnpj_do_tomador_ind02,
      COLUNAS_DOC.inicio_estado,
      COLUNAS_DOC.inicio_munici,
      COLUNAS_DOC.final_estado,
      COLUNAS_DOC.final_munici,
      COLUNAS_DOC.info_destinatario_cnpj,
      COLUNAS_DOC.info_destinatario_nome,
      COLUNAS_DOC.local_entrega,
      COLUNAS_DOC.descricao_nat_oper,
      COLUNAS_DOC.nota_cancelada,
      COLUNAS_DOC.registro_de_origem,
      COLUNAS_DOC.natureza_bc,
      COLUNAS_DOC.modelo_descricao,
      COLUNAS_DOC.num_doc_fiscal,
      COLUNAS_DOC.chave_de_acesso,
      COLUNAS_DOC.observacoes_gerais,
      COLUNAS_DOC.dia_emissao_nota,
      COLUNAS_DOC.num_di,
      COLUNAS_DOC.num_item,
      COLUNAS_DOC.codigo_cfop,
      COLUNAS_DOC.descricao_cfop,
      COLUNAS_DOC.descricao_da_mercadoria,
      COLUNAS_DOC.codigo_ncm,
      COLUNAS_DOC.descricao_ncm,
      COLUNAS_DOC.aliquota_cofins,
      COLUNAS_DOC.aliquota_pis,
      COLUNAS_DOC.cst_cofins_descr,
      COLUNAS_DOC.cst_pis_descr,
      COLUNAS_DOC.valor_total,
      COLUNAS_DOC.valor_proporcional,
      COLUNAS_DOC.valor_descontos,
      COLUNAS_DOC.valor_seguro,
      COLUNAS_DOC.valor_tributo_cofins,
      COLUNAS_DOC.valor_tributo_pis,
      COLUNAS_DOC.valor_tributo_ipi,
      COLUNAS_DOC.valor_bc_iss,
      COLUNAS_DOC.valor_tributo_iss,
      COLUNAS_DOC.aliquota_icms,
      COLUNAS_DOC.valor_bc_icms,
      COLUNAS_DOC.valor_icms,
      COLUNAS_DOC.valor_icms_sub>>

DocFill == [i \in 1..Len(DocRest) |-> <<"0">>]

\* headers: every column of the table, the key column first or second; the
\* key column replaced by another name
DocHeaders ==
    {<<COLUNAS_DOC.chave44_digitos, COLUNAS_DOC.observacoes>> \o DocRest,
     <<COLUNAS_DOC.observacoes, <<" ">> \o COLUNAS_DOC.chave44_digitos>> \o DocRest,
     <<COLUNAS_DOC.observacoes, <<"O", "u", "t", "r", "a">>>> \o DocRest}

\* values of the key column of a fiscal document
DocKeyCells ==
    {Nfe1,
     SubSeq(Nfe1, 1, 20) \o <<".">> \o SubSeq(Nfe1, 21, 44) \o <<" ", "/">>,
     CteA, Rep("1", 43), Nfe1 \o <<"U+0663">>}

\* values of the other column
DocTextCells == {<<"x">>, <<"a", " ", " ", "b">>, <<"a", "\t", "\t", "b">>}

\* a data record by the position of its key column, with a cell for every
\* other column; or one field too many
DocRows(keyFirst) ==
    {(IF keyFirst THEN <<k, t>> ELSE <<t, k>>) \o DocFill :
        k \in DocKeyCells, t \in DocTextCells}
        \cup {<<Nfe1, <<"x">>, <<"y">>>> \o DocFill}

KeyFirst(h) == Trim(h[1]) = COLUNAS_DOC.chave44_digitos

\* no file; a file of every header and of at most MaxDocRows records; a file
\* of the key column and "Observacoes" alone
DocFiles ==
    {NoFile} \cup
    UNION {{[exists |-> TRUE, header |-> h, rows |-> r] :
               r \in SeqsUpTo(DocRows(KeyFirst(h)), MaxDocRows)} : h \in DocHeaders} \cup
    {[exists |-> TRUE,
      header |-> <<COLUNAS_DOC.chave44_digitos, COLUNAS_DOC.observacoes>>,
      rows |-> <<<<Nfe1, <<"x">>>>>>]}

\* Ledger Key Sets: none, one key, two keys, and a set holding the key of
\* non-ASCII digits that get_efd_info can return
LedgerKeySets == {{}, {Nfe1}, {Nfe1, CteA, Rep("U+0663", 44)}}

DocConfig(paths) ==
    [efd_path |-> "efd.csv", arquivos_csv |-> paths, target |-> "ZZZ.csv",
     colunas_efd |-> COLUNAS_EFD, colunas_doc |-> COLUNAS_DOC,
     nfe_ctes |-> EmptyMap, cte_nfes |-> EmptyMap, cte_complementar |-> EmptyMap]

-----------------------------------------------------------------------------
(* Specification of process_single_csv as a function of one file, of the   *)
(* Ledger Key Set and of the file's place in config.arquivos_csv           *)

InitCsv ==
    /\ config \in {DocConfig(<<"f1.csv">>), DocConfig(<<"f0.csv", "f1.csv">>)}
    /\ \E f \in DocFiles : doc_files = [p \in {"f1.csv"} |-> f]
    /\ keys_efd \in LedgerKeySets
    /\ staging = <<>>
    /\ csv_result = NotCalled
    /\ GraphIdle
    /\ EfdIdle
    /\ MatchIdle
    /\ MergeIdle
    /\ LoadIdle
    /\ GapIdle
    /\ RunIdle

\* sped_efd.rs 494: process_single_csv(path.to_path_buf(), config, keys_efd)
ProcessSingleCsv ==
    /\ csv_result = NotCalled
    /\ \E r \in process_single_csv("f1.csv", config, keys_efd, doc_files) :
          /\ csv_result' = r
          /\ staging' = StagingAfter(staging, config, "f1.csv", r)
    /\ UNCHANGED <<config, doc_files, keys_efd>>
    /\ UNCHANGED CsvOthers

NextCsv == ProcessSingleCsv

SpecCsv == InitCsv /\ [][NextCsv]_vars

-----------------------------------------------------------------------------
(* Claims about the document matcher *)

\* the keys that the claim counts as found in a file: the values of the key
\* column that, stripped of non-digits, have 44 digits and are in the Ledger
\* Key Set
KeysFoundIn(file, name, filter) ==
    {k \in WellFormedKeysOf(file, name) : k \in filter}

\* the header as the reader hands it over (fields trimmed)
LedgerColumns == TrimAll(ledger.header)

HasBlankName(names) ==
    \E i \in 1..Len(names) : \A j \in 1..Len(names[i]) : names[i][j] \in WhiteSpace

HasDuplicateName(names) ==
    \E i, j \in 1..Len(names) : i # j /\ names[i] = names[j]

LacksRequired(names, colunas) ==
    \E k \in DOMAIN colunas : \A i \in 1..Len(names) : names[i] # colunas[k]

HeaderRejected(names, colunas) ==
    HasBlankName(names) \/ HasDuplicateName(names) \/ LacksRequired(names, colunas)

\* C12: header validation returns an error if and only if the header has a
\* blank column name, or a duplicate column name, or lacks a configured
\* required column; when it fails for the ledger, get_efd_info fails and
\* returns no key set.
C12_HeaderValidation ==
    (efd_result # NotCalled /\ ledger.exists) =>
        /\ (NoError \notin verificar_existencia_de_colunas_essenciais(
                               LedgerColumns, "EFDContrib", config.colunas_efd,
                               config.efd_path))
              <=> HeaderRejected(LedgerColumns, config.colunas_efd)
        /\ HeaderRejected(LedgerColumns, config.colunas_efd) =>
              /\ ~efd_result.ok
              /\ efd_result.keys = {}
              /\ efd_result.err.kind \in
                    {"EmptyColumnName", "DuplicateColumnName", "MissingEssentialColumn"}
        /\ ~HeaderRejected(LedgerColumns, config.colunas_efd) =>
              efd_result.err.kind \notin
                    {"EmptyColumnName", "DuplicateColumnName", "MissingEssentialColumn"}

\* a ledger that holds a well-formed key and whose header repeats a name
\* while holding every required column: get_efd_info failed on the header
C12_Witness ==
    /\ efd_result # NotCalled
    /\ ledger.exists
    /\ HasDuplicateName(LedgerColumns)
    /\ ~LacksRequired(LedgerColumns, config.colunas_efd)
    /\ ~HasBlankName(LedgerColumns)
    /\ \E r \in 1..Len(ledger.rows) : ledger.rows[r][2] = Nfe1
    /\ efd_result.err.kind = "DuplicateColumnName"
    /\ efd_result.keys = {}

\* the data rows whose number of fields is not the header's
BadRows == {r \in 1..Len(ledger.rows) : Len(ledger.rows[r]) # Len(ledger.header)}

FirstBadRow == CHOOSE r \in BadRows : \A q \in BadRows : r <= q

\* C13: in get_efd_info, the first data row whose field count differs from
\* the header's makes the operation fail with ColumnCount carrying the
\* ledger's path, the number of that row (the header being row 1), the
\* expected and the found column counts; no key set is returned.
C13_ColumnCount ==
    (/\ efd_result # NotCalled
     /\ ledger.exists
     /\ ~HeaderRejected(LedgerColumns, config.colunas_efd)
     /\ BadRows # {}) =>
        /\ ~efd_result.ok
        /\ efd_result.keys = {}
        /\ efd_result.err.kind = "ColumnCount"
        /\ efd_result.err.arquivo = config.efd_path
        /\ efd_result.err.linha = FirstBadRow + 1
        /\ efd_result.err.esperado = Len(ledger.header)
        /\ efd_result.err.encontrado = Len(ledger.rows[FirstBadRow])

\* a row with a well-formed key, then a row of 40 fields under the header
\* of the 39 columns: the failure names row 3
C13_Witness ==
    /\ efd_result # NotCalled
    /\ ledger.exists
    /\ Len(ledger.header) = 39
    /\ Len(ledger.rows) = 2
    /\ ledger.rows[1][2] = Nfe1
    /\ Len(ledger.rows[2]) = 40
    /\ efd_result.err = ColumnCount(config.efd_path, 3, 39, 40)

\* C7: for a file processed without error, process_single_csv returns as
\* found exactly the keys of the file's key column that have 44 digits once
\* stripped of non-digits and are in the Ledger Key Set, and as count the
\* number of data rows, matched or not.
C7_FoundAndCount ==
    (csv_result # NotCalled /\ csv_result.ok) =>
        /\ csv_result.found =
              KeysFoundIn(doc_files["f1.csv"], COLUNAS_DOC.chave44_digitos, keys_efd)
        /\ csv_result.found \subseteq keys_efd
        /\ csv_result.count = Len(doc_files["f1.csv"].rows)

\* two rows scanned, one of them matched through a key written with
\* punctuation, the other not matched
C7_Witness ==
    /\ csv_result # NotCalled
    /\ csv_result.ok
    /\ csv_result.count = 2
    /\ csv_result.found = {Nfe1}
    /\ \E r \in 1..2 : \E f \in 1..2 :
          /\ doc_files["f1.csv"].rows[r][f] # Nfe1
          /\ AsciiDigitsOf(doc_files["f1.csv"].rows[r][f]) = Nfe1
    /\ \E r \in 1..2 : \E f \in 1..2 : doc_files["f1.csv"].rows[r][f] = Rep("1", 43)

\* two consecutive whitespace characters
HasWhitespaceRun(t) ==
    \E i \in 1..(Len(t) - 1) : t[i] \in WhiteSpace /\ t[i + 1] \in WhiteSpace

\* the lines of the staging output of `path` that were written for matched
\* rows: all of them but the header line of the first file
StagedRows(path) ==
    LET first == IF Head(config.arquivos_csv) = path THEN 2 ELSE 1
    IN  IF to_hash(config, path) \notin DOMAIN staging THEN <<>>
        ELSE SubSeq(staging[to_hash(config, path)], first,
                    Len(staging[to_hash(config, path)]))

\* C22: for every matched row, each field written to the staging output has
\* every run of two or more whitespace characters (spaces, tabs, any mix)
\* replaced by one space: no staged field, hence no staged line of a matched
\* row (the delimiter and the quotes are not whitespace), holds two
\* consecutive whitespace characters.
C22_FieldsCollapsed ==
    (csv_result # NotCalled /\ csv_result.created) =>
        \A i \in 1..Len(StagedRows("f1.csv")) :
            ~HasWhitespaceRun(StagedRows("f1.csv")[i])

\* the first data row of a file whose number of fields is not the header's
\* (0 when every row has the header's number of fields)
FirstBadRowOf(file) ==
    LET bad == {i \in 1..Len(file.rows) : Len(file.rows[i]) # Len(file.header)}
    IN  IF bad = {} THEN 0 ELSE CHOOSE i \in bad : \A j \in bad : i <= j

\* C24: in process_single_csv a data row whose field count differs from the
\* header's is a fatal error for that file, and the error value carries the
\* file path, the row number and the expected and found column counts, as
\* the error of the ledger does (SpedError::ColumnCount).
C24_DocColumnCount ==
    LET file == doc_files["f1.csv"]
        row  == FirstBadRowOf(file)
    IN  (csv_result # NotCalled /\ csv_result.created /\ row > 0) =>
            /\ ~csv_result.ok
            /\ "arquivo" \in DOMAIN csv_result.err
            /\ csv_result.err =
                  ColumnCount("f1.csv", row + 1, Len(file.header), Len(file.rows[row]))

-----------------------------------------------------------------------------
(* Specification of read_csv_files: the worker threads of the parallel     *)
(* iterator take the paths in any order and run the closure of 493-506     *)
(* step by step                                                            *)

Workers == {"w1", "w2"}

PathNames == <<"f1.csv", "f2.csv", "f3.csv", "f4.csv", "f5.csv">>

\* config.arquivos_csv: distinct paths, sorted (args.rs 141)
MatchPaths == SubSeq(PathNames, 1, NumFiles)

DocHeader == <<COLUNAS_DOC.chave44_digitos, COLUNAS_DOC.observacoes>> \o DocRest

\* the files a run draws from: two that are read to the end, one whose
\* header lacks the key column, one with a record of one field too many
\* after a matching record, and a path that cannot be opened
MatchFiles ==
    {[exists |-> TRUE, header |-> DocHeader,
      rows |-> <<<<SubSeq(Nfe1, 1, 20) \o <<"-">> \o SubSeq(Nfe1, 21, 44),
                   <<"a", " ", " ", "b">>>> \o DocFill,
                 <<Rep("1", 43), <<"x">>>> \o DocFill>>],
     [exists |-> TRUE, header |-> DocHeader,
      rows |-> <<<<CteA, <<"x">>>> \o DocFill, <<Nfe1, <<"x">>>> \o DocFill>>],
     [exists |-> TRUE,
      header |-> <<COLUNAS_DOC.observacoes, <<"O", "u", "t", "r", "a">>>> \o DocRest,
      rows |-> <<<<<<"x">>, Nfe2>> \o DocFill>>],
     [exists |-> TRUE, header |-> DocHeader,
      rows |-> <<<<Nfe2, <<"x">>>> \o DocFill, <<Nfe1, <<"x">>, <<"y">>>> \o DocFill>>],
     NoFile}

IdleWorker == [pc |-> "idle", path |-> "", set |-> {}, count |-> 0]

InitMatch ==
    /\ config = DocConfig(MatchPaths)
    /\ doc_files \in [SeqToSet(MatchPaths) -> MatchFiles]
    /\ keys_efd = {Nfe1, Nfe2, CteA}
    /\ staging = <<>>
    /\ csv_result = NotCalled
    /\ queue = SeqToSet(MatchPaths)
    /\ wk = [w \in Workers |-> IdleWorker]
    /\ contrib = <<>>
    /\ total_itens = 0
    /\ keys_encontradas = {}
    /\ read_result = NotCalled
    /\ GraphIdle
    /\ EfdIdle
    /\ MergeIdle
    /\ LoadIdle
    /\ GapIdle
    /\ RunIdle

\* 493-499: a worker takes a path and runs process_single_csv on it; the
\* call reads its own file and writes its own staging output only
Process(w, path) ==
    /\ wk[w].pc = "idle"
    /\ path \in queue
    /\ queue' = queue \ {path}
    /\ \E r \in process_single_csv(path, config, keys_efd, doc_files) :
          LET out == unwrap_or_default(r)
          IN  /\ wk' = [wk EXCEPT ![w] = [pc |-> "add", path |-> path,
                                          set |-> out.set, count |-> out.count]]
              /\ contrib' = [q \in DOMAIN contrib \cup {path} |->
                                IF q = path THEN [set |-> out.set, count |-> out.count]
                                ELSE contrib[q]]
              /\ staging' = StagingAfter(staging, config, path, r)
    /\ UNCHANGED <<config, doc_files, keys_efd, total_itens, keys_encontradas, read_result>>
    /\ UNCHANGED MatchOthers

\* 502
FetchAdd(w) ==
    /\ wk[w].pc = "add"
    /\ total_itens' = fetch_add(total_itens, wk[w].count)
    /\ wk' = [wk EXCEPT ![w].pc = "collect"]
    /\ UNCHANGED <<config, doc_files, keys_efd, staging, queue, contrib,
                   keys_encontradas, read_result>>
    /\ UNCHANGED MatchOthers

\* 505-507: the keys of the local set flow into the collected HashSet
Collect(w) ==
    /\ wk[w].pc = "collect"
    /\ keys_encontradas' = keys_encontradas \cup wk[w].set
    /\ wk' = [wk EXCEPT ![w] = IdleWorker]
    /\ UNCHANGED <<config, doc_files, keys_efd, staging, queue, contrib,
                   total_itens, read_result>>
    /\ UNCHANGED MatchOthers

\* A mutant: the caller does not wait for the workers.
Joined_Early == TRUE

\* 491-507: collect() returns when the parallel iterator is exhausted, i.e.
\* when every path was taken and every worker has ended its closure
Joined == queue = {} /\ \A w \in Workers : wk[w].pc = "idle"

\* 509-514: every path done, the counter is loaded and the set returned
ReturnKeys ==
    /\ read_result = NotCalled
    /\ Joined
    /\ read_result' = [ok |-> TRUE, keys |-> keys_encontradas, total |-> total_itens]
    /\ UNCHANGED <<config, doc_files, keys_efd, staging, queue, wk, contrib,
                   total_itens, keys_encontradas>>
    /\ UNCHANGED MatchOthers

NextMatch ==
    \/ \E w \in Workers : \E path \in SeqToSet(MatchPaths) : Process(w, path)
    \/ \E w \in Workers : FetchAdd(w)
    \/ \E w \in Workers : Collect(w)
    \/ ReturnKeys

SpecMatch == InitMatch /\ [][NextMatch]_vars

-----------------------------------------------------------------------------
(* Claims about read_csv_files *)

RECURSIVE SumOver(_, _)
SumOver(S, f) ==
    IF S = {} THEN 0
    ELSE LET x == CHOOSE y \in S : TRUE IN f[x] + SumOver(S \ {x}, f)

\* what process_single_csv does with one file on its own
Alone(path) == CHOOSE r \in process_single_csv(path, config, keys_efd, doc_files) : TRUE

FailingPaths == {q \in SeqToSet(config.arquivos_csv) : ~Alone(q).ok}

SoundPaths == SeqToSet(config.arquivos_csv) \ FailingPaths

\* C8: when process_single_csv fails for a file, read_csv_files still
\* returns Ok; the failing file adds the empty set and 0 to the aggregate,
\* and every other file adds exactly the matches and the count it produces
\* on its own.
C8_FailureIsolated ==
    (read_result # NotCalled) =>
        /\ read_result.ok
        /\ \A q \in FailingPaths : contrib[q].set = {} /\ contrib[q].count = 0
        /\ \A q \in SoundPaths :
              contrib[q].set = Alone(q).found /\ contrib[q].count = Alone(q).count
        /\ read_result.keys = UNION {Alone(q).found : q \in SoundPaths}
        /\ read_result.total = SumOver(SoundPaths, [q \in SoundPaths |-> Alone(q).count])

\* a run with a failing file that had matched a key and counted a record
\* before its failure, and with a sound file
C8_Witness ==
    /\ read_result # NotCalled
    /\ \E q \in FailingPaths : Alone(q).found # {} /\ Alone(q).count > 0
    /\ \E q \in FailingPaths : Alone(q).err.kind = "MissingEssentialColumn"
    /\ \E q \in SoundPaths : Alone(q).found # {}

\* C9: whatever the assignment of files to workers and the interleaving of
\* the workers, the returned set is the union of the per-file sets and the
\* counter ends as the sum of the per-file counts; both are functions of
\* the files alone, hence the same for every processing order.
C9_UnionAndSum ==
    (read_result # NotCalled) =>
        /\ DOMAIN contrib = SeqToSet(config.arquivos_csv)
        /\ read_result.keys = UNION {contrib[q].set : q \in DOMAIN contrib}
        /\ read_result.total =
              SumOver(DOMAIN contrib, [q \in DOMAIN contrib |-> contrib[q].count])
        /\ read_result.keys =
              UNION {unwrap_or_default(Alone(q)).set : q \in SeqToSet(config.arquivos_csv)}
        /\ read_result.total =
              SumOver(SeqToSet(config.arquivos_csv),
                      [q \in SeqToSet(config.arquivos_csv) |->
                          unwrap_or_default(Alone(q)).count])

\* a run that returned after two different files each counted records and
\* whose sets of matched keys differ
C9_Witness ==
    /\ read_result # NotCalled
    /\ \E p, q \in DOMAIN contrib :
          /\ p # q
          /\ contrib[p].count > 0
          /\ contrib[q].count > 0
          /\ contrib[p].set # contrib[q].set
    /\ read_result.total >= 4

-----------------------------------------------------------------------------
(* Specification of merge_files over the staging outputs of two files *)

MergePaths == <<"f1.csv", "f2.csv">>

\* lines of a staging output: records of trimmed fields joined by ';', here
\* of one field: with one space, with two, with two tabs, with one tab, with
\* a space and a no-break space, and without whitespace
StagedLines ==
    {<<"a", " ", "b">>, <<"a", " ", " ", "b">>, <<"a", "\t", "\t", "b">>,
     <<"a", "\t", "b">>, <<"a", " ", "U+00A0", "b">>, <<"a", "b">>}

\* the staging outputs present when merge_files is called: a file whose
\* process_single_csv failed before File::create has none
StagingStates ==
    UNION {[{to_hash(DocConfig(MergePaths), q) : q \in present}
                -> SeqsUpTo(StagedLines, MaxStaged)] :
           present \in SUBSET SeqToSet(MergePaths)}

InitMerge ==
    /\ config = DocConfig(MergePaths)
    /\ staging \in StagingStates
    /\ staging0 = staging
    /\ final_output = NotCalled
    /\ merge_result = NotCalled
    /\ doc_files = <<>>
    /\ keys_efd = {}
    /\ csv_result = NotCalled
    /\ GraphIdle
    /\ EfdIdle
    /\ MatchIdle
    /\ LoadIdle
    /\ GapIdle
    /\ RunIdle

\* main.rs 67: merge_files(&config)?
MergeFiles ==
    /\ merge_result = NotCalled
    /\ LET r == merge_files(config, staging)
       IN  /\ merge_result' = [ok |-> r.ok, err |-> r.err]
           /\ final_output' = r.final
           /\ staging' = r.staging
    /\ UNCHANGED <<config, staging0>>
    /\ UNCHANGED MergeOthers

NextMerge == MergeFiles

SpecMerge == InitMerge /\ [][NextMerge]_vars

-----------------------------------------------------------------------------
(* Specification of the gap reporter: imprimir_chaves_nao_encontradas and  *)
(* exportar_chaves_faltantes as main.rs 71-75 calls them                   *)

\* the ledger keys of one report, at most
MaxLedgerKeys == 3

\* the ledger keys of the reports, texts of 44 digits as get_efd_info
\* returns them: keys of the models 55 and 57, of the model 06 (a name with
\* a '/'), of the models 00 and 99 (no name); a key of 44 non-ASCII digits,
\* and a key whose first digit is not ASCII, so that its bytes 20-21 are its
\* characters 20-21 (regex.rs 28-30 admits both)
GapPool ==
    {Nfe1, Nfe2, CteA,
     MkKey("6", <<"0", "6">>), MkKey("7", <<"0", "0">>), MkKey("8", <<"9", "9">>),
     Rep("U+0663", 44),
     <<"U+0663">> \o Rep("1", 18) \o <<"5", "7">> \o Rep("1", 23)}

\* the n-th key of a model, for the groups of more than MAX_LINHAS keys
Serial(modelo, n) ==
    Rep("9", 20) \o modelo \o Rep("0", 22 - Len(Decimal(n))) \o Decimal(n)

\* groups of MAX_LINHAS keys, of one more, and of more than two files
LargeLedgers ==
    {{Serial(<<"5", "5">>, i) : i \in 1..MAX_LINHAS},
     {Serial(<<"5", "5">>, i) : i \in 1..(MAX_LINHAS + 1)} \cup {CteA},
     {Serial(<<"5", "7">>, i) : i \in 1..(2 * MAX_LINHAS + 1)} \cup {Nfe1}}

\* the ledger key sets with which run() reaches main.rs 71: the call of
\* imprimir_informacao_segregada at main.rs 61 has returned
GapLedgers ==
    {S \in {T \in SUBSET GapPool : Cardinality(T) <= MaxLedgerKeys} \cup LargeLedgers :
        imprimir_informacao_segregada(S).ok}

InitGap ==
    /\ config = DocConfig(<<>>)
    /\ keys_efd \in GapLedgers
    /\ keys_doc \in SUBSET (keys_efd \cap {Nfe1, CteA})
    /\ chaves_faltantes = NotCalled
    /\ export_result = NotCalled
    /\ doc_files = <<>>
    /\ staging = <<>>
    /\ csv_result = NotCalled
    /\ GraphIdle
    /\ EfdIdle
    /\ MatchIdle
    /\ MergeIdle
    /\ LoadIdle
    /\ RunIdle

\* main.rs 71: imprimir_chaves_nao_encontradas(&keys_efd, &keys_doc)
ImprimirChaves ==
    /\ chaves_faltantes = NotCalled
    /\ chaves_faltantes' = imprimir_chaves_nao_encontradas(keys_efd, keys_doc)
    /\ UNCHANGED <<config, keys_efd, keys_doc, export_result>>
    /\ UNCHANGED GapOthers

\* main.rs 73-75: exportar_chaves_faltantes(&chaves_faltantes, &config.target)
ExportarChaves ==
    /\ chaves_faltantes.ok
    /\ chaves_faltantes.keys # {}
    /\ export_result = NotCalled
    /\ export_result' = exportar_chaves_faltantes(chaves_faltantes.keys, config.target)
    /\ UNCHANGED <<config, keys_efd, keys_doc, chaves_faltantes>>
    /\ UNCHANGED GapOthers

NextGap == ImprimirChaves \/ ExportarChaves

SpecGap == InitGap /\ [][NextGap]_vars

-----------------------------------------------------------------------------
(* Specification of run(), main.rs 19-81, from the first loader on *)

\* what run() reads and what it never writes
RunOthers == <<ref_file, comp_file, ledger, doc_files, csv_result, queue, wk,
               contrib, total_itens, keys_encontradas>>

\* the two reference texts: absent, with a line that cannot be read, sound
RunTexts ==
    {NoText,
     [exists |-> TRUE, lines |-> <<TextLine(CteA \o <<" ">> \o Nfe1), UnreadableLine>>],
     [exists |-> TRUE, lines |-> <<TextLine(CteA \o <<" ">> \o Nfe1),
                                   TextLine(CteA \o <<" ">> \o CteB)>>]}

\* the ledger: absent, without the key column, with a row of one field too
\* many, sound, and sound with a key whose 20th digit is not ASCII
RunLedgers ==
    {NoFile,
     [exists |-> TRUE,
      header |-> <<COLUNAS_EFD.num_linha, <<"O", "u", "t", "r", "a">>>> \o EfdRest,
      rows |-> <<<<<<"1">>, CteA>> \o EfdFill>>],
     [exists |-> TRUE,
      header |-> <<COLUNAS_EFD.num_linha, COLUNAS_EFD.chave_documento>> \o EfdRest,
      rows |-> <<<<<<"1">>, CteA>> \o EfdFill, <<<<"2">>, Nfe2, <<"x">>>> \o EfdFill>>],
     [exists |-> TRUE,
      header |-> <<COLUNAS_EFD.num_linha, COLUNAS_EFD.chave_documento>> \o EfdRest,
      rows |-> <<<<<<"1">>, CteA>> \o EfdFill, <<<<"2">>, Nfe2>> \o EfdFill>>],
     [exists |-> TRUE,
      header |-> <<COLUNAS_EFD.num_linha, COLUNAS_EFD.chave_documento>> \o EfdRest,
      rows |-> <<<<<<"1">>, CteA>> \o EfdFill,
                 <<<<"2">>, Rep("1", 19) \o <<"U+0663">> \o <<"5", "5">> \o Rep("1", 22)>>
                     \o EfdFill>>]}

\* the state at main.rs 32, the configuration as get_config made it
InitRun ==
    /\ config = DocConfig(<<"f0.csv", "f1.csv">>)
    /\ ref_file \in RunTexts
    /\ comp_file \in RunTexts
    /\ ledger \in RunLedgers
    /\ doc_files \in [{"f0.csv", "f1.csv"} -> {f \in MatchFiles : f.exists}]
    /\ rpc = "33"
    /\ run_result = NotCalled
    /\ loaded_nfes = NotCalled
    /\ loaded_compl = NotCalled
    /\ efd_result = NotCalled
    /\ keys_efd = {}
    /\ staging = <<>>
    /\ csv_result = NotCalled
    /\ keys_doc = {}
    /\ chaves_faltantes = NotCalled
    /\ export_result = NotCalled
    /\ GraphIdle
    /\ MatchIdle
    /\ MergeIdle

\* main.rs 33: let mut cte_nfes = ler_todas_as_nfes_deste_cte(file_cte)?
RunLerTodasAsNfes ==
    /\ rpc = "33"
    /\ \E r \in ler_todas_as_nfes_deste_cte(ref_file) :
          /\ loaded_nfes' = r
          /\ rpc' = IF ReturnsErr(r) THEN "returned" ELSE "36"
          /\ run_result' = IF ReturnsErr(r) THEN [ok |-> FALSE, err |-> r.err] ELSE run_result
    /\ UNCHANGED <<config, cte_complementar, cte_nfes, nfe_ctes, input_map,
                   input_nfes, expansions, gpc, efd_result, keys_efd,
                   staging, read_result, staging0, final_output,
                   merge_result, loaded_compl, keys_doc, chaves_faltantes,
                   export_result>>
    /\ UNCHANGED RunOthers

\* main.rs 36: let mut cte_complementar = ler_chave_complementar_deste_cte(file_comp)?
RunLerChaveComplementar ==
    /\ rpc = "36"
    /\ \E r \in ler_chave_complementar_deste_cte(comp_file) :
          /\ loaded_compl' = r
          /\ rpc' = IF ReturnsErr(r) THEN "returned" ELSE "39"
          /\ run_result' = IF ReturnsErr(r) THEN [ok |-> FALSE, err |-> r.err] ELSE run_result
    /\ UNCHANGED <<config, cte_complementar, cte_nfes, nfe_ctes, input_map,
                   input_nfes, expansions, gpc, efd_result, keys_efd,
                   staging, read_result, staging0, final_output,
                   merge_result, loaded_nfes, keys_doc, chaves_faltantes,
                   export_result>>
    /\ UNCHANGED RunOthers

\* main.rs 39-50: the two expansions, the inverted index, and the three maps
\* moved into the configuration
RunExpand ==
    /\ rpc = "39"
    /\ \E c \in expand_cte_complementar(loaded_compl.map) :
          /\ input_map' = loaded_compl.map
          /\ input_nfes' = loaded_nfes.map
          /\ cte_complementar' = c
          /\ cte_nfes' = expand_cte_nfes(loaded_nfes.map, c)
          /\ nfe_ctes' = get_nfe_ctes(expand_cte_nfes(loaded_nfes.map, c))
          /\ config' = [config EXCEPT !.nfe_ctes = get_nfe_ctes(expand_cte_nfes(loaded_nfes.map, c)),
                                      !.cte_nfes = expand_cte_nfes(loaded_nfes.map, c),
                                      !.cte_complementar = c]
    /\ expansions' = expansions + 1
    /\ gpc' = "indexed"
    /\ rpc' = "57"
    /\ UNCHANGED <<efd_result, keys_efd, staging, read_result, staging0,
                   final_output, merge_result, loaded_nfes, loaded_compl,
                   keys_doc, chaves_faltantes, export_result, run_result>>
    /\ UNCHANGED RunOthers

\* main.rs 57: let keys_efd = get_efd_info(&config)?
RunGetEfdInfo ==
    /\ rpc = "57"
    /\ \E r \in get_efd_info(config, ledger) :
          /\ efd_result' = r
          /\ keys_efd' = r.keys
          /\ rpc' = IF ReturnsErr(r) THEN "returned" ELSE "61"
          /\ run_result' = IF ReturnsErr(r) THEN [ok |-> FALSE, err |-> r.err] ELSE run_result
    /\ UNCHANGED <<config, cte_complementar, cte_nfes, nfe_ctes, input_map,
                   input_nfes, expansions, gpc, staging, read_result,
                   staging0, final_output, merge_result, loaded_nfes,
                   loaded_compl, keys_doc, chaves_faltantes, export_result>>
    /\ UNCHANGED RunOthers

\* main.rs 60-61: exibir_orientacoes_auditoria prints, and
\* imprimir_informacao_segregada(&keys_efd, ..) counts the ledger keys by
\* model; a panic ends the process
RunImprimirSegregadaEfd ==
    /\ rpc = "61"
    /\ rpc' = IF imprimir_informacao_segregada(keys_efd).ok THEN "64" ELSE "aborted"
    /\ UNCHANGED <<config, cte_complementar, cte_nfes, nfe_ctes, input_map,
                   input_nfes, expansions, gpc, efd_result, keys_efd,
                   staging, read_result, staging0, final_output,
                   merge_result, loaded_nfes, loaded_compl, keys_doc,
                   chaves_faltantes, export_result, run_result>>
    /\ UNCHANGED RunOthers

\* main.rs 64, the call of read_csv_files: the parallel iterator over
\* config.arquivos_csv is set up (sped_efd.rs 491-492) and the workers start
RunReadCsvFiles ==
    /\ rpc = "64"
    /\ queue' = SeqToSet(config.arquivos_csv)
    /\ wk' = [w \in Workers |-> IdleWorker]
    /\ rpc' = "491"
    /\ UNCHANGED <<config, cte_complementar, cte_nfes, nfe_ctes, input_map,
                   input_nfes, expansions, gpc, efd_result, keys_efd,
                   staging, read_result, staging0, final_output,
                   merge_result, loaded_nfes, loaded_compl, keys_doc,
                   chaves_faltantes, export_result, run_result>>
    /\ UNCHANGED <<ref_file, comp_file, ledger, doc_files, csv_result,
                   contrib, total_itens, keys_encontradas>>

\* main.rs 64, the return of read_csv_files (sped_efd.rs 509-514, always Ok)
\* and the binding of keys_doc
RunReturnKeys ==
    /\ rpc = "491"
    /\ Joined
    /\ read_result' = [ok |-> TRUE, keys |-> keys_encontradas, total |-> total_itens]
    /\ keys_doc' = keys_encontradas
    /\ rpc' = "67"
    /\ UNCHANGED <<config, cte_complementar, cte_nfes, nfe_ctes, input_map,
                   input_nfes, expansions, gpc, efd_result, keys_efd,
                   staging, staging0, final_output, merge_result,
                   loaded_nfes, loaded_compl, chaves_faltantes,
                   export_result, run_result>>
    /\ UNCHANGED RunOthers

\* main.rs 67: merge_files(&config)?
RunMergeFiles ==
    /\ rpc = "67"
    /\ LET r == merge_files(config, staging)
       IN  /\ merge_result' = [ok |-> r.ok, err |-> r.err]
           /\ final_output' = r.final
           /\ staging0' = staging
           /\ staging' = r.staging
           /\ rpc' = IF ReturnsErr(r) THEN "returned" ELSE "68"
           /\ run_result' = IF ReturnsErr(r) THEN [ok |-> FALSE, err |-> r.err] ELSE run_result
    /\ UNCHANGED <<config, cte_complementar, cte_nfes, nfe_ctes, input_map,
                   input_nfes, expansions, gpc, efd_result, keys_efd,
                   read_result, loaded_nfes, loaded_compl, keys_doc,
                   chaves_faltantes, export_result>>
    /\ UNCHANGED RunOthers

\* main.rs 68: imprimir_informacao_segregada(&keys_doc, ..) counts the
\* matched keys by model; a panic ends the process
RunImprimirSegregadaDoc ==
    /\ rpc = "68"
    /\ rpc' = IF imprimir_informacao_segregada(keys_doc).ok THEN "71" ELSE "aborted"
    /\ UNCHANGED <<config, cte_complementar, cte_nfes, nfe_ctes, input_map,
                   input_nfes, expansions, gpc, efd_result, keys_efd,
                   staging, read_result, staging0, final_output,
                   merge_result, loaded_nfes, loaded_compl, keys_doc,
                   chaves_faltantes, export_result, run_result>>
    /\ UNCHANGED RunOthers

\* main.rs 71: imprimir_chaves_nao_encontradas(&keys_efd, &keys_doc); a panic
\* ends the process
RunImprimir ==
    /\ rpc = "71"
    /\ chaves_faltantes' = imprimir_chaves_nao_encontradas(keys_efd, keys_doc)
    /\ rpc' = IF imprimir_chaves_nao_encontradas(keys_efd, keys_doc).ok THEN "73" ELSE "aborted"
    /\ UNCHANGED <<config, cte_complementar, cte_nfes, nfe_ctes, input_map,
                   input_nfes, expansions, gpc, efd_result, keys_efd,
                   staging, read_result, staging0, final_output,
                   merge_result, loaded_nfes, loaded_compl, keys_doc,
                   export_result, run_result>>
    /\ UNCHANGED RunOthers

\* main.rs 73-80: the export of the missing keys, when there are any, and Ok(())
RunExportar ==
    /\ rpc = "73"
    /\ LET r == exportar_chaves_faltantes(chaves_faltantes.keys, config.target)
       IN  IF chaves_faltantes.keys = {}
           THEN /\ export_result' = export_result
                /\ run_result' = [ok |-> TRUE, err |-> NoError]
           ELSE /\ export_result' = r
                /\ run_result' = IF ReturnsErr(r) THEN [ok |-> FALSE, err |-> r.err]
                                 ELSE [ok |-> TRUE, err |-> NoError]
    /\ rpc' = "returned"
    /\ UNCHANGED <<config, cte_complementar, cte_nfes, nfe_ctes, input_map,
                   input_nfes, expansions, gpc, efd_result, keys_efd,
                   staging, read_result, staging0, final_output,
                   merge_result, loaded_nfes, loaded_compl, keys_doc,
                   chaves_faltantes>>
    /\ UNCHANGED RunOthers

NextRun ==
    \/ RunLerTodasAsNfes
    \/ RunLerChaveComplementar
    \/ RunExpand
    \/ RunGetEfdInfo
    \/ RunImprimirSegregadaEfd
    \/ RunReadCsvFiles
    \/ \E w \in Workers : \E path \in SeqToSet(config.arquivos_csv) :
          rpc = "491" /\ Process(w, path)
    \/ \E w \in Workers : rpc = "491" /\ FetchAdd(w)
    \/ \E w \in Workers : rpc = "491" /\ Collect(w)
    \/ RunReturnKeys
    \/ RunMergeFiles
    \/ RunImprimirSegregadaDoc
    \/ RunImprimir
    \/ RunExportar

SpecRun == InitRun /\ [][NextRun]_vars

-----------------------------------------------------------------------------
(* Claims about merge_files *)

\* the content of a line modulo whitespace collapsing: the first character
\* of a run of two or more whitespace characters becomes a space, the
\* others of the run go away
StartsRun(t, i) ==
    /\ t[i] \in WhiteSpace
    /\ (i = 1 \/ t[i - 1] \notin WhiteSpace)
    /\ i < Len(t)
    /\ t[i + 1] \in WhiteSpace

ContinuesRun(t, i) == t[i] \in WhiteSpace /\ i > 1 /\ t[i - 1] \in WhiteSpace

RECURSIVE CollapsedFrom(_, _, _)
CollapsedFrom(t, lo, hi) ==
    IF lo > hi THEN <<>>
    ELSE IF lo = hi
    THEN (IF ContinuesRun(t, lo) THEN <<>>
          ELSE IF StartsRun(t, lo) THEN <<" ">>
          ELSE <<t[lo]>>)
    ELSE LET mid == (lo + hi) \div 2
         IN  CollapsedFrom(t, lo, mid) \o CollapsedFrom(t, mid + 1, hi)

Collapsed(t) == CollapsedFrom(t, 1, Len(t))

\* the lines merge_files read: those of the staging outputs it removed
LinesMerged ==
    UNION {SeqToSet(staging0[t]) : t \in DOMAIN staging0 \ DOMAIN staging}

\* C10: after merge_files the final output has no two lines of the same
\* whitespace-normalized content, whichever staging outputs they came from:
\* staging lines equal modulo whitespace collapsing, within one file or
\* across two, give exactly one line of the final output.
C10_NoDuplicateLines ==
    (merge_result # NotCalled) =>
        /\ \A i, j \in 1..Len(final_output) :
              Collapsed(final_output[i]) = Collapsed(final_output[j]) => i = j
        /\ \A l \in LinesMerged :
              Cardinality({i \in 1..Len(final_output) :
                              Collapsed(final_output[i]) = Collapsed(l)}) = 1

\* the staging outputs merge_files read, in the order of config.arquivos_csv
RECURSIVE LinesInFileOrder(_)
LinesInFileOrder(paths) ==
    IF paths = <<>> THEN <<>>
    ELSE LET t == to_hash(config, Head(paths))
         IN  IF t \notin DOMAIN staging0 THEN <<>>
             ELSE staging0[t] \o LinesInFileOrder(Tail(paths))

\* the collapsed lines that no earlier line of the sequence equals when
\* collapsed, in the order of the sequence
FirstOccurrences(lines) ==
    LET firsts == {i \in 1..Len(lines) :
                     \A j \in 1..(i - 1) : Collapsed(lines[j]) # Collapsed(lines[i])}
        RECURSIVE Pick(_)
        Pick(i) == IF i > Len(lines) THEN <<>>
                   ELSE (IF i \in firsts THEN <<Collapsed(lines[i])>> ELSE <<>>)
                            \o Pick(i + 1)
    IN  Pick(1)

Sorted(paths) ==
    \A i, j \in 1..Len(paths) : i < j =>
        \E n \in 1..5 : PathNames[n] = paths[i] /\ \E m \in (n + 1)..5 : PathNames[m] = paths[j]

\* C20: merge_files reads the staging outputs in the order of
\* config.arquivos_csv (the sorted input paths) and keeps the first
\* occurrence of each distinct normalized line: the final output is the
\* sequence of the first occurrences in that reading order, every later
\* duplicate being discarded.
C20_FirstSeenOrder ==
    (merge_result # NotCalled) =>
        /\ Sorted(config.arquivos_csv)
        /\ final_output = FirstOccurrences(LinesInFileOrder(config.arquivos_csv))

\* two staging outputs of two lines each; the first line of the second
\* repeats, when collapsed, the first line of the first and is discarded,
\* its second line is new and comes last
C20_Witness ==
    /\ merge_result # NotCalled
    /\ merge_result.ok
    /\ LET f1 == staging0[to_hash(config, config.arquivos_csv[1])]
           f2 == staging0[to_hash(config, config.arquivos_csv[2])]
       IN  /\ Len(f1) = 2 /\ Len(f2) = 2
           /\ f1[1] # f2[1]
           /\ Collapsed(f1[1]) = Collapsed(f2[1])
           /\ final_output = <<Collapsed(f1[1]), Collapsed(f1[2]), Collapsed(f2[2])>>
           /\ Len(final_output) = 3
           /\ Collapsed(f1[2]) # Collapsed(f2[2])
           /\ Collapsed(f1[2]) # Collapsed(f1[1])

\* both staging outputs merged, each holding a line that differs from a
\* line of the other but not in its collapsed content, and one of them
\* holding two such lines
C10_Witness ==
    /\ merge_result # NotCalled
    /\ merge_result.ok
    /\ \E t, u \in DOMAIN staging0 :
          /\ t # u
          /\ \E i \in 1..Len(staging0[t]) : \E j \in 1..Len(staging0[u]) :
                /\ staging0[t][i] # staging0[u][j]
                /\ Collapsed(staging0[t][i]) = Collapsed(staging0[u][j])
          /\ Len(staging0[t]) = 2
          /\ staging0[t][1] # staging0[t][2]
          /\ Collapsed(staging0[t][1]) = Collapsed(staging0[t][2])
    /\ Len(final_output) = 1

\* the header row of a file as write_record writes it (572)
HeaderLine(path) == write_record(TrimAll(doc_files[path].header))

\* C23: process_single_csv writes the header row to a staging output if and
\* only if the file is the first element of config.arquivos_csv: the staging
\* output of the first file starts with its header row, no other staging
\* output holds a header row, and the merged final output carries at most
\* one header line.
C23_HeaderOnlyFirst ==
    /\ \A S \in {staging, staging0} : \A path \in DOMAIN doc_files :
          to_hash(config, path) \in DOMAIN S =>
              LET lines == S[to_hash(config, path)]
              IN  IF path = Head(config.arquivos_csv)
                  THEN /\ Len(lines) >= 1
                       /\ lines[1] = HeaderLine(path)
                       /\ \A i \in 2..Len(lines) : lines[i] # HeaderLine(path)
                  ELSE \A i \in 1..Len(lines) : \A q \in DOMAIN doc_files :
                           lines[i] # HeaderLine(q)
    /\ (merge_result # NotCalled) =>
          Cardinality({i \in 1..Len(final_output) :
                          \E q \in DOMAIN doc_files :
                              final_output[i] = Collapsed(HeaderLine(q))}) <= 1

\* both files staged rows and were merged: the final output starts with the
\* header of the first file, and the staging output of the second file held
\* its row without a header
C23_Witness ==
    /\ merge_result # NotCalled
    /\ merge_result.ok
    /\ final_output[1] = Collapsed(HeaderLine("f0.csv"))
    /\ Len(staging0[to_hash(config, "f0.csv")]) >= 2
    /\ Len(staging0[to_hash(config, "f1.csv")]) >= 1
    /\ HeaderLine("f1.csv") = HeaderLine("f0.csv")
    /\ staging0[to_hash(config, "f1.csv")][1] # HeaderLine("f1.csv")

\* process_single_csv failed on `path` before it created the staging output
FailedEarly(path) == ~Alone(path).ok /\ ~Alone(path).created

\* the final output holds every line that the staging output of `path` was
\* given, in its collapsed form
RowsInFinal(path) ==
    \A i \in 1..Len(Alone(path).lines) :
        \E j \in 1..Len(final_output) : final_output[j] = Collapsed(Alone(path).lines[i])

\* C29: if process_single_csv fails for a file before creating its staging
\* output (the file cannot be opened, its header is not valid) while
\* read_csv_files returns Ok, the merge_files that follows still succeeds and
\* the final output holds the matched rows of all the other files.
C29_MergeAfterEarlyFailure ==
    (/\ merge_result # NotCalled
     /\ read_result.ok
     /\ \E path \in DOMAIN doc_files : FailedEarly(path)) =>
        /\ merge_result.ok
        /\ \A q \in DOMAIN doc_files : ~FailedEarly(q) => RowsInFinal(q)

\* run() has ended: it returned, or the process was ended by a panic
Terminated == rpc \in {"returned", "aborted"}

\* C21: every staging output created by process_single_csv during matching
\* is deleted by merge_files after its lines have been merged: once the
\* pipeline has terminated, no staging output remains.
C21_NoStagingLeft ==
    /\ Terminated => DOMAIN staging = {}
    /\ (merge_result # NotCalled) =>
          \A t \in DOMAIN staging0 :
              /\ t \notin DOMAIN staging
              /\ \A i \in 1..Len(staging0[t]) :
                    \E j \in 1..Len(final_output) :
                        final_output[j] = Collapsed(staging0[t][i])

\* the rows of the files that the line can come from: the rows with the
\* header's number of fields, in a file that has the key column, whose
\* written and collapsed form is the line; each with its normalized key
KeysOfLine(line) ==
    UNION {{AsciiDigitsOf(doc_files[path].rows[i][
                ColumnOf(doc_files[path].header, COLUNAS_DOC.chave44_digitos)]) :
               i \in {i \in 1..Len(doc_files[path].rows) :
                         /\ Len(doc_files[path].rows[i]) = Len(doc_files[path].header)
                         /\ Collapsed(write_record(TrimAll(doc_files[path].rows[i]))) = line}} :
           path \in {q \in DOMAIN doc_files : ~FailedEarly(q)}}

\* C28: in every run, also when a file fails part-way through its rows,
\* every data line of the final output comes from a row whose normalized key
\* is in the matched-key set returned by read_csv_files; hence no key that
\* has a row in the final output is reported as missing by
\* imprimir_chaves_nao_encontradas.
C28_FinalRowsAreMatched ==
    (merge_result # NotCalled) =>
        \A j \in 1..Len(final_output) :
            \/ final_output[j] = Collapsed(HeaderLine(Head(config.arquivos_csv)))
            \/ /\ KeysOfLine(final_output[j]) # {}
               /\ KeysOfLine(final_output[j]) \subseteq keys_doc
               /\ KeysOfLine(final_output[j]) \cap chaves_faltantes.keys = {}

\* C25: the stages of the pipeline run in order and never overlap: matching
\* starts only after the Ledger Key Set is complete, merge_files starts
\* reading the staging outputs only after read_csv_files has returned, i.e.
\* after every matcher worker has finished writing and flushing its staging
\* output, and the merge itself is sequential (one staging output after the
\* other, in the order of config.arquivos_csv).
C25_StagesInOrder ==
    /\ (rpc = "491" \/ read_result # NotCalled \/ DOMAIN contrib # {}) =>
          /\ efd_result # NotCalled
          /\ efd_result.ok
          /\ keys_efd = efd_result.keys
    /\ (merge_result # NotCalled) =>
          /\ read_result # NotCalled
          /\ queue = {}
          /\ \A w \in DOMAIN wk : wk[w].pc = "idle"
          /\ DOMAIN contrib = SeqToSet(config.arquivos_csv)
          /\ \A path \in SeqToSet(config.arquivos_csv) :
                IF Alone(path).created
                THEN /\ to_hash(config, path) \in DOMAIN staging0
                     /\ staging0[to_hash(config, path)] = Alone(path).lines
                ELSE to_hash(config, path) \notin DOMAIN staging0
          /\ final_output = FirstOccurrences(LinesInFileOrder(config.arquivos_csv))

\* a run whose two files were both matched by the workers and then merged:
\* the final output holds the header and a row of each file
C25_Witness ==
    /\ merge_result # NotCalled
    /\ merge_result.ok
    /\ \A path \in DOMAIN contrib : contrib[path].set # {}
    /\ contrib["f0.csv"].set # contrib["f1.csv"].set
    /\ Len(final_output) >= 3
    /\ rpc \in {"68", "71", "73", "returned", "aborted"}

-----------------------------------------------------------------------------
(* Claims about the reference loaders *)

\* the text was opened and every line of it read
Readable == ref_file.exists /\ \A i \in 1..Len(ref_file.lines) : ref_file.lines[i].ok

\* the 44-digit tokens of every line of the text, from left to right, as the
\* loaders' pattern extracts them
TokensOf == [i \in 1..Len(ref_file.lines) |-> find_iter(ref_file.lines[i].text)]

\* a key of the model `m` (two characters): 44 digits, `m` at positions 21-22
IsModel(k, m) == IsAsciiKey(k) /\ k[21] = m[1] /\ k[22] = m[2]

\* the later tokens of a line of tokens t that are model 55
MembersOf(t) == {t[j] : j \in {j \in 2..Len(t) : IsModel(t[j], <<"5", "5">>)}}

\* a line of tokens t is accepted by the cargo-note loader
Accepted(t) ==
    /\ t # <<>>
    /\ IsModel(t[1], <<"5", "7">>)
    /\ MembersOf(t) # {}

\* C14: ler_todas_as_nfes_deste_cte accepts a line only when its first
\* 44-digit token is model 57; the entry of that token then holds every
\* later token of the line that is model 55, and nothing that no line of
\* that token gives; a line whose first token is not model 57, or without a
\* model-55 member, adds nothing and is no error.
C14_CargoNoteLines ==
    (loaded_nfes # NotCalled /\ Readable) =>
        LET tok      == TokensOf
            accepted == {i \in DOMAIN tok : Accepted(tok[i])}
        IN  /\ loaded_nfes.ok
            /\ DOMAIN loaded_nfes.map = {tok[i][1] : i \in accepted}
            /\ \A i \in accepted :
                  /\ tok[i][1] \in DOMAIN loaded_nfes.map
                  /\ MembersOf(tok[i]) \subseteq loaded_nfes.map[tok[i][1]]
            /\ \A k \in DOMAIN loaded_nfes.map :
                  \A n \in loaded_nfes.map[k] :
                      \E i \in accepted : tok[i][1] = k /\ n \in MembersOf(tok[i])

\* a line of tokens t declares an edge between two different keys of model 57
Edge(t, a, b) ==
    /\ Len(t) >= 2
    /\ IsModel(t[1], <<"5", "7">>)
    /\ IsModel(t[2], <<"5", "7">>)
    /\ t[1] # t[2]
    /\ {t[1], t[2]} = {a, b}

\* the keys of the lines of tokens `tok` and of the map
KeysOfText(tok, map) ==
    UNION {SeqToSet(tok[i]) : i \in DOMAIN tok}
        \cup DOMAIN map
        \cup UNION {map[k] : k \in DOMAIN map}

\* C15: ler_chave_complementar_deste_cte records an edge for a line if and
\* only if the line has at least two 44-digit tokens and the first two are
\* both model 57 and differ; the edge is recorded in both directions, so the
\* map is symmetric and no key lists itself; any other line is skipped
\* without error.
C15_ComplementaryEdges ==
    (loaded_compl # NotCalled /\ Readable) =>
        LET tok  == TokensOf
            keys == KeysOfText(tok, loaded_compl.map)
        IN  /\ loaded_compl.ok
            /\ \A a \in keys, b \in keys :
                  b \in Get(loaded_compl.map, a)
                      <=> \E i \in DOMAIN tok : Edge(tok[i], a, b)
            /\ \A a \in keys, b \in keys :
                  b \in Get(loaded_compl.map, a) <=> a \in Get(loaded_compl.map, b)
            /\ \A a \in DOMAIN loaded_compl.map :
                  a \notin loaded_compl.map[a] /\ loaded_compl.map[a] # {}

\* a line 57A 57B and a line 57A 57A: A and B list each other, nothing else
C15_Witness ==
    /\ loaded_compl # NotCalled
    /\ Readable
    /\ Len(ref_file.lines) = 2
    /\ \E i, j \in 1..2 :
          /\ TokensOf[i] = <<CteA, CteB>>
          /\ TokensOf[j] = <<CteA, CteA>>
    /\ loaded_compl.map = (CteA :> {CteB} @@ CteB :> {CteA})

\* C16: in both reference loaders, when several lines produce the same key,
\* its final entry is the union of the sets of all those lines, and the
\* final map is the same for every processing order of the lines.
C16_UnionOfLines ==
    LET tok == TokensOf
    IN  /\ (loaded_nfes # NotCalled /\ Readable) =>
              \A k \in DOMAIN loaded_nfes.map :
                  loaded_nfes.map[k] =
                      UNION {MembersOf(tok[i]) :
                                i \in {i \in DOMAIN tok : Accepted(tok[i]) /\ tok[i][1] = k}}
        /\ (loaded_compl # NotCalled /\ Readable) =>
              \A k \in DOMAIN loaded_compl.map :
                  loaded_compl.map[k] =
                      {b \in KeysOfText(tok, loaded_compl.map) :
                          \E i \in DOMAIN tok : Edge(tok[i], k, b)}

\* the runs of exactly 44 digits of a line that are not adjacent to other
\* digits, from left to right; a digit is what the pattern's \d takes for
\* one
DigitRuns(line) ==
    LET isRun(i) == /\ i + KeyLen - 1 <= Len(line)
                    /\ (i = 1 \/ line[i - 1] \notin UnicodeDigits)
                    /\ (i + KeyLen - 1 = Len(line) \/ line[i + KeyLen] \notin UnicodeDigits)
                    /\ \A j \in i..(i + KeyLen - 1) : line[j] \in UnicodeDigits
        RECURSIVE RunsFrom(_)
        RunsFrom(i) == IF i > Len(line) THEN <<>>
                       ELSE IF isRun(i)
                       THEN <<SubSeq(line, i, i + KeyLen - 1)>> \o RunsFrom(i + KeyLen)
                       ELSE RunsFrom(i + 1)
    IN  RunsFrom(1)

\* C26: both reference loaders extract from each line exactly the runs of
\* exactly 44 digits that are not adjacent to other digits: a 44-digit run
\* preceded or followed by any non-digit character (letter, underscore,
\* punctuation, space) is a token, a run of 45 or more digits yields none.
\* The maps the loaders return are those of these tokens: the keys of the
\* cargo-note map are the first tokens of the accepted lines, each holding
\* the members of one of its lines at least, and the edges of the
\* complementary map are those of the first two tokens.
C26_TokensAreDigitRuns ==
    LET runs == [i \in 1..Len(ref_file.lines) |-> DigitRuns(ref_file.lines[i].text)]
    IN  /\ (loaded_nfes # NotCalled /\ Readable) =>
              /\ DOMAIN loaded_nfes.map =
                    {runs[i][1] : i \in {i \in DOMAIN runs : Accepted(runs[i])}}
              /\ \A k \in DOMAIN loaded_nfes.map :
                    \E i \in DOMAIN runs :
                        /\ Accepted(runs[i])
                        /\ runs[i][1] = k
                        /\ MembersOf(runs[i]) \subseteq loaded_nfes.map[k]
        /\ (loaded_compl # NotCalled /\ Readable) =>
              \A a \in KeysOfText(runs, loaded_compl.map),
                 b \in KeysOfText(runs, loaded_compl.map) :
                  b \in Get(loaded_compl.map, a)
                      <=> \E i \in DOMAIN runs : Edge(runs[i], a, b)

-----------------------------------------------------------------------------
(* Claims about the gap reporter *)

\* the keys of length 22 or more
LongKeys(S) == {k \in S : Len(Utf8(k)) >= 22}

\* the model code of a key: its characters 21-22
ModelCode(k) == SubSeq(k, 21, 22)

\* missing[model] = ledger_keys[model] minus matched_keys
Missing(model) == {k \in LongKeys(keys_efd) : ModelCode(k) = model} \ keys_doc

\* C11: imprimir_chaves_nao_encontradas returns the union over the model
\* codes of missing[model] = ledger_keys[model] minus matched_keys: for the
\* ledger keys of length >= 22, exactly ledger_keys minus matched_keys.
C11_SetDifference ==
    chaves_faltantes # NotCalled =>
        /\ chaves_faltantes.ok
        /\ chaves_faltantes.keys =
              UNION {Missing(model) : model \in {ModelCode(k) : k \in LongKeys(keys_efd)}}
        /\ chaves_faltantes.keys = LongKeys(keys_efd) \ keys_doc

\* a report over ledger keys of several models, one of them with a digit
\* that is not ASCII, of which some were matched and some were not
C11_Witness ==
    /\ chaves_faltantes # NotCalled
    /\ chaves_faltantes.ok
    /\ Cardinality({ModelCode(k) : k \in keys_efd}) >= 2
    /\ \E k \in keys_efd : Utf8(k) # k
    /\ keys_doc # {}
    /\ chaves_faltantes.keys # {}
    /\ chaves_faltantes.keys # keys_efd

\* the place of a byte in the order of the bytes
ByteVal(b) == CHOOSE n \in 1..Len(ByteOrder) : ByteOrder[n] = b

\* a is before b in the order of str
KeyLess(a, b) ==
    LET x     == Utf8(a)
        y     == Utf8(b)
        m     == IF Len(x) < Len(y) THEN Len(x) ELSE Len(y)
        diffs == {i \in 1..m : x[i] # y[i]}
    IN  IF diffs = {} THEN Len(x) < Len(y)
        ELSE LET d == CHOOSE i \in diffs : \A j \in diffs : i <= j
             IN  ByteVal(x[d]) < ByteVal(y[d])

\* the keys handed to exportar_chaves_faltantes that have the model `code`
GroupOf(code) == {k \in LongKeys(chaves_faltantes.keys) : Codigo(k) = code}

\* the number a text of decimal digits writes
RECURSIVE DecimalValue(_)
DecimalValue(d) ==
    IF d = <<>> THEN 0
    ELSE 10 * DecimalValue(SubSeq(d, 1, Len(d) - 1)) + (ByteVal(d[Len(d)]) - 1)

\* f is {base}-{model_name}-{offset:06}.txt for the number `offset`
IsNamed(f, base, name, offset) ==
    /\ Len(f) = Len(name) + 13
    /\ f[1] = base
    /\ f[2] = "-"
    /\ SubSeq(f, 3, Len(name) + 2) = name
    /\ f[Len(name) + 3] = "-"
    /\ \A j \in Len(name) + 4 .. Len(name) + 9 : f[j] \in AsciiDigits
    /\ DecimalValue(SubSeq(f, Len(name) + 4, Len(name) + 9)) = offset
    /\ SubSeq(f, Len(name) + 10, Len(name) + 13) = <<".", "t", "x", "t">>

\* the file of the chunk i of the group of `code`
ChunkFile(code, i) ==
    CHOOSE f \in DOMAIN export_result.files :
        IsNamed(f, config.target, get_modelo_documentos_fiscais(code), MAX_LINHAS * i)

CeilDiv(n, d) == (n + d - 1) \div d

\* the model codes of the keys handed to exportar_chaves_faltantes
CodesExported == {Codigo(k) : k \in LongKeys(chaves_faltantes.keys)}

\* the files of the group of `code`: one for each i below ceil(n/900), of
\* the sorted keys of the positions 900*i up to min(900*(i+1), n)
GroupExported(code) ==
    LET grupo == GroupOf(code)
        n     == Cardinality(grupo)
        files == export_result.files
        name  == get_modelo_documentos_fiscais(code)
    IN  /\ \A i \in 0..(CeilDiv(n, MAX_LINHAS) - 1) :
              /\ \E f \in DOMAIN files : IsNamed(f, config.target, name, MAX_LINHAS * i)
              /\ LET lines == files[ChunkFile(code, i)]
                 IN  /\ Len(lines) = (IF MAX_LINHAS * (i + 1) < n THEN MAX_LINHAS
                                      ELSE n - MAX_LINHAS * i)
                     /\ SeqToSet(lines) \subseteq grupo
                     /\ \A j \in 1..(Len(lines) - 1) : KeyLess(lines[j], lines[j + 1])
                     /\ i > 0 =>
                           KeyLess(files[ChunkFile(code, i - 1)][MAX_LINHAS], lines[1])
        /\ \A f \in DOMAIN files :
              (\E off \in 0..(2 * MAX_LINHAS) : IsNamed(f, config.target, name, off))
                  => Len(files[f]) <= MAX_LINHAS

\* C17: exportar_chaves_faltantes sorts the missing keys by (model code,
\* full key) and, for a model group of n keys, produces ceil(n/900) files:
\* the i-th file (i from 0) holds the sorted keys of the positions 900*i up
\* to min(900*(i+1), n), so that no file exceeds 900 lines, and is named
\* {base}-{model_name}-{offset:06}.txt with offset = 900*i.
C17_ChunkedExport ==
    export_result # NotCalled =>
        /\ export_result.ok
        /\ \A code \in CodesExported : GroupExported(code)
        /\ Cardinality(DOMAIN export_result.files) =
              SumOver(CodesExported,
                      [code \in CodesExported |->
                          CeilDiv(Cardinality(GroupOf(code)), MAX_LINHAS)])

\* the files of export_result that hold the key
FilesOf(k) == {f \in DOMAIN export_result.files : k \in SeqToSet(export_result.files[f])}

\* C27: exportar_chaves_faltantes writes every missing key of length >= 22
\* to exactly one output file, and no file written for one model group is
\* overwritten by another group: after it returns, the union of the lines of
\* all the files it produced is the input key set, for every combination of
\* model codes present (several codes that share a descriptive name
\* included).
C27_EveryKeyInOneFile ==
    (export_result # NotCalled /\ export_result.err # Panic) =>
        /\ \A k \in LongKeys(chaves_faltantes.keys) : Cardinality(FilesOf(k)) = 1
        /\ UNION {SeqToSet(export_result.files[f]) : f \in DOMAIN export_result.files}
              = LongKeys(chaves_faltantes.keys)
        /\ \A f \in DOMAIN export_result.files :
              /\ Cardinality(SeqToSet(export_result.files[f])) = Len(export_result.files[f])
              /\ Cardinality({Codigo(k) : k \in SeqToSet(export_result.files[f])}) = 1

-----------------------------------------------------------------------------
(* Claims about run() *)

\* the call returned an Err
FailedCall(r) == r # NotCalled /\ ~r.ok

\* the first fatal error of the reference loaders and of get_efd_info
FirstFatal ==
    IF FailedCall(loaded_nfes) THEN loaded_nfes.err
    ELSE IF FailedCall(loaded_compl) THEN loaded_compl.err
    ELSE efd_result.err

\* C18: if a reference loader or get_efd_info fails, run() stops at that
\* first fatal error: nothing is called after it, no fiscal-document file is
\* matched, and no staging output, final output or missing-key file is
\* created in that run.
C18_FailFast ==
    (FailedCall(loaded_nfes) \/ FailedCall(loaded_compl) \/ FailedCall(efd_result)) =>
        /\ rpc = "returned"
        /\ run_result = [ok |-> FALSE, err |-> FirstFatal]
        /\ FailedCall(loaded_nfes) => loaded_compl = NotCalled /\ gpc = "idle"
        /\ ~FailedCall(efd_result) => efd_result = NotCalled
        /\ read_result = NotCalled
        /\ keys_doc = {}
        /\ staging = <<>>
        /\ merge_result = NotCalled
        /\ final_output = NotCalled
        /\ chaves_faltantes = NotCalled
        /\ export_result = NotCalled

\* both reference texts were loaded and expanded, the ledger lacks the key
\* column: get_efd_info failed and the two fiscal-document files were left
\* unread
C18_Witness ==
    /\ loaded_nfes.ok
    /\ loaded_compl.ok
    /\ gpc = "indexed"
    /\ FailedCall(efd_result)
    /\ efd_result.err.kind = "MissingEssentialColumn"
    /\ Len(config.arquivos_csv) = 2
    /\ \A q \in DOMAIN doc_files : doc_files[q].exists
    /\ rpc = "returned"
    /\ staging = <<>>

-----------------------------------------------------------------------------
(* Claims about the graph expander *)

\* every key a map mentions, as a key or as a neighbour
Nodes(map) == DOMAIN map \cup UNION {map[u] : u \in DOMAIN map}

\* u and v are joined by a declared edge, read in either direction
Linked(map, u, v) == v \in Get(map, u) \/ u \in Get(map, v)

\* the connected component of the members of S, edges read as undirected
RECURSIVE Reach(_, _)
Reach(map, S) ==
    LET T == S \cup {v \in Nodes(map) : \E u \in S : Linked(map, u, v)}
    IN  IF T = S THEN S ELSE Reach(map, T)

Component(map, u) == Reach(map, {u})

\* C1: after expand_cte_complementar, every connected component of the input
\* (edges read as undirected) with k >= 2 members is a clique: each member
\* maps to exactly the k-1 other members of its component.
C1_Clique ==
    expansions >= 1 =>
        \A u \in Nodes(input_map) :
            Cardinality(Component(input_map, u)) >= 2 =>
                /\ u \in DOMAIN cte_complementar
                /\ cte_complementar[u] = Component(input_map, u) \ {u}
                /\ Cardinality(cte_complementar[u]) = Cardinality(Component(input_map, u)) - 1

\* the doc-test: A lists B and B lists C; afterwards each lists the other two
C1_Witness ==
    /\ expansions = 1
    /\ input_map = ("A" :> {"B"} @@ "B" :> {"C"})
    /\ cte_complementar = ("A" :> {"B", "C"} @@ "B" :> {"A", "C"} @@ "C" :> {"A", "B"})

\* C2: after expand_cte_complementar the map is symmetric: B is in the set of
\* A if and only if A is in the set of B, also when the edges were declared
\* in one direction only.
C2_Symmetric ==
    expansions >= 1 =>
        \A a \in Ctes, b \in Ctes :
            b \in Get(cte_complementar, a) <=> a \in Get(cte_complementar, b)

\* an edge declared by A only is listed by B after the expansion
C2_Witness ==
    /\ expansions = 1
    /\ input_map = ("A" :> {"B"})
    /\ "A" \in Get(cte_complementar, "B")
    /\ "B" \in Get(cte_complementar, "A")

\* C3: expand_cte_complementar is idempotent: a second call leaves the map
\* of the first call unchanged.
C3_Idempotent ==
    [][(expansions = 1 /\ expansions' = 2) => cte_complementar' = cte_complementar]_vars

\* the second call has run on a map that the first call had changed
C3_Witness ==
    /\ expansions = 2
    /\ cte_complementar # input_map
    /\ cte_complementar # EmptyMap

\* C19: in the result of expand_cte_complementar no key is in its own set
\* and no key maps to an empty set: the keys whose component has a single
\* member (an entry without neighbours, or with a self-reference only) are
\* absent from the result.
C19_NoSelfNoEmpty ==
    expansions >= 1 =>
        /\ \A k \in DOMAIN cte_complementar :
              k \notin cte_complementar[k] /\ cte_complementar[k] # {}
        /\ \A k \in Nodes(input_map) :
              Component(input_map, k) = {k} => k \notin DOMAIN cte_complementar

\* A lists itself only, D has an entry without neighbours, B lists C: the
\* result holds B and C alone
C19_Witness ==
    /\ expansions = 1
    /\ input_map = ("A" :> {"A"} @@ "B" :> {"C"} @@ "D" :> {})
    /\ cte_complementar = ("B" :> {"C"} @@ "C" :> {"B"})

\* the same undirected edges, each declared by its other end
Flipped(map) ==
    LET targets == UNION {map[u] : u \in DOMAIN map}
    IN  [n \in targets |-> {u \in DOMAIN map : n \in map[u]}]

\* the same undirected edges, each declared by both ends
BothWays(map) ==
    [n \in Nodes(map) |-> {v \in Nodes(map) : Linked(map, n, v)}]

\* C30: the result of expand_cte_complementar depends only on the set of
\* undirected edges of the input map: every order of the traversal roots and
\* every order of the pushed neighbours yields the same output map, and so
\* does the same edge set declared from the other end or from both ends
\* (stated of the map the first call leaves).
C30_OrderIndependent ==
    expansions = 1 =>
        \A m \in {input_map, Flipped(input_map), BothWays(input_map)} :
            expand_cte_complementar(m) = {cte_complementar}

\* the path A-B-C declared by its middle node: the roots A, B, C and the
\* neighbours of B can be taken in several orders
C30_Witness ==
    /\ expansions = 1
    /\ input_map = ("B" :> {"A", "C"})
    /\ Cardinality(Perms(DOMAIN Symmetrize(input_map))) > 1
    /\ cte_complementar = ("A" :> {"B", "C"} @@ "B" :> {"A", "C"} @@ "C" :> {"A", "B"})

\* C4: after expand_cte_complementar and expand_cte_nfes, every key of a
\* complementary component lists the union of the original cargo notes of all
\* the members of its component.
C4_NotesOfComponent ==
    gpc \in {"propagated", "indexed"} =>
        \A k \in Nodes(input_map) :
            Get(cte_nfes, k) =
                UNION {Get(input_nfes, m) : m \in Component(input_map, k)}

\* A owns N1, A-B and B-C are declared: C, which owns nothing and is not
\* declared complementary to A, lists N1 after the propagation
C4_Witness ==
    /\ gpc = "propagated"
    /\ input_nfes = ("A" :> {"N1"})
    /\ "C" \notin Get(input_map, "A")
    /\ "C" \in Get(cte_complementar, "A")
    /\ "N1" \in Get(cte_nfes, "C")
    /\ "N1" \in Get(cte_nfes, "B")

=============================================================================
